---------------------------- MODULE Spec2Model ----------------------------
(***************************************************************************)
(* Model of the simple-transfer (hyperg) node: the resource catalog        *)
(* (database.rs), one peer link (connection.rs) and the download driver    *)
(* (download.rs, main.rs).                                                 *)
(***************************************************************************)
EXTENDS Integers, Sequences, FiniteSets, TLC

(***************************************************************************)
(* Option<T>: None is the empty sequence, Some(v) a one-element sequence.  *)
(***************************************************************************)
None == <<>>
Some(v) == <<v>>
IsSome(o) == o # <<>>
Unwrap(o) == o[1]

Range(s) == {s[i] : i \in 1..Len(s)}

(***************************************************************************)
(* Bounds of the model.                                                    *)
(***************************************************************************)
\* wall-clock instants of the catalog are 0..MaxTime
MaxTime == 2
\* width in bits of the modelled digest (the program keeps 128 bits)
HashBits == 16

(***************************************************************************)
(* filemap.rs                                                              *)
(***************************************************************************)
BLOCK_SIZE == 4194304

\* struct FileMap
FileMap(name, size, blocks) ==
    [file_name |-> name, file_size |-> size, blocks |-> blocks]

\* the bytes of a file name, as bincode writes them
NameBytes(name) ==
    CASE name = "a" -> <<97>>
      [] name = "b" -> <<98>>
      [] OTHER -> <<97, 98>>

\* bincode::serialize_into of one FileMap: length-prefixed name, u64 size,
\* length-prefixed block hashes, fields in declaration order
SerializeFileMap(m) ==
    <<Len(NameBytes(m.file_name))>> \o NameBytes(m.file_name)
        \o <<m.file_size % 2^HashBits>> \o <<Len(m.blocks)>> \o m.blocks

RECURSIVE DigestInput(_, _)
\* Digest::input: the running digest h after absorbing the words of s
DigestInput(h, s) ==
    IF s = <<>> THEN h
    ELSE DigestInput((h * 31 + Head(s) + 1) % 2^HashBits, Tail(s))

\* extract_results: the truncated digest
extract_results(h) == h

\* hash_block(bytes): digest of one block; a block's bytes are modelled by a
\* sequence of words
hash_block(bytes) == extract_results(DigestInput(7, bytes))

RECURSIVE SerializeAll(_)
SerializeAll(maps) ==
    IF maps = <<>> THEN <<>>
    ELSE SerializeFileMap(Head(maps)) \o SerializeAll(Tail(maps))

\* hash_bundles(maps): one digest fed with every FileMap in order
hash_bundles(maps) == extract_results(DigestInput(7, SerializeAll(maps)))

(***************************************************************************)
(* The files and bundles the model draws its inputs from.                  *)
(***************************************************************************)
\* block payloads: small sequences of words
BytesA1 == <<1, 2>>
BytesA2 == <<3>>
BytesB1 == <<4, 5>>
BytesBad == <<9>>

FM_a == FileMap("a", BLOCK_SIZE + 1, <<hash_block(BytesA1), hash_block(BytesA2)>>)
FM_b == FileMap("b", 2, <<hash_block(BytesB1)>>)
\* an empty file: hash_file gives it no block
FM_e == FileMap("ab", 0, <<>>)

\* Vec<(FileMap, PathBuf)> values of RegisterHash.files
FilesA == << <<FM_a, "/srv/a">> >>
FilesAB == << <<FM_a, "/srv/a">>, <<FM_b, "/srv/b">> >>
FilesB1 == << <<FM_b, "/srv/b">> >>
FilesB2 == << <<FM_b, "/tmp/b">> >>
FilesE == << <<FM_e, "/srv/e">> >>

FileMapsOf(fs) == [i \in 1..Len(fs) |-> fs[i][1]]

HashA == hash_bundles(FileMapsOf(FilesA))
HashAB == hash_bundles(FileMapsOf(FilesAB))
HashB == hash_bundles(FileMapsOf(FilesB1))
HashE == hash_bundles(FileMapsOf(FilesE))

(***************************************************************************)
(* State.                                                                  *)
(***************************************************************************)
VARIABLES
    files,      \* DatabaseManager.files: map_hash -> (FileDesc, reporter)
    now,        \* SystemTime::now()
    dbOp,       \* the message the DatabaseManager handled last
    actor,          \* the Connection actor: "Running", "Stopped", "Panicked"
    peer_id,        \* Connection.peer_id
    current_file,   \* Connection.current_file
    block_requests, \* Connection.block_requests: pairs <<GetBlock, sender>>
    ask_requests,   \* Connection.ask_requests: pairs <<hash, sender>>
    responders,     \* the oneshot channels created so far and their outcomes
    framed,         \* the frames written to Connection.framed, in order
    framed_closed,  \* framed.close() was called
    lookups,        \* the GetHash futures spawned by handle_ask
    timers,         \* the run_later timers of the actor's context
    clock,          \* milliseconds since the actor started
    connOp,         \* the message, frame or timer the actor handled last
    hello_fut,      \* the future Connection::new / new_managed returned
    asked,          \* the hashes of the ASK frames passed to handle_ask, in order
    events,         \* frames, messages and catalog changes that happened so far
    branches,       \* find_peer: the futures handed to select_ok, per peer
    dl,             \* State::download: where it stands and what it answers
    out,            \* the files State::download created and their contents
    got,            \* the Blocks State::download received, in order
    reqs,           \* the GetBlock requests State::download sent, in order
    links,          \* the Connections of the download, per peer
    wire,           \* the bytes a peer wrote that were not read yet
    inbuf,          \* the buffer of the FramedRead, handed to decode
    sent,           \* the frames the peer wrote, in order, and their lengths
    recv,           \* the commands decode returned, in order
    result,         \* what the last call of decode returned
    mailbox,        \* the messages sent to the DatabaseManager and not handled yet
    served,         \* the messages the DatabaseManager handled, in order
    db_dir,         \* DatabaseManager.dir: the data directory and what it holds
    db_id,          \* DatabaseManager.id
    system,         \* the process and the thread of the DatabaseManager
    hf,             \* hash_file: its locals and what it returns
    rb              \* read_block: its arguments, its locals and what it returns

dbVars == <<files, now, dbOp>>

connVars == <<actor, peer_id, current_file, block_requests, ask_requests,
              responders, framed, framed_closed, lookups, timers, connOp,
              events, asked, hello_fut, clock>>

dlVars == <<branches, dl, out, got, reqs, links>>

codecVars == <<wire, inbuf, sent, recv, result>>

mbVars == <<mailbox, served>>

bootVars == <<db_dir, db_id, system>>

hashVars == <<hf>>

readVars == <<rb>>

vars == <<dbVars, connVars, dlVars, codecVars, mbVars, bootVars, hashVars,
          readVars>>

(***************************************************************************)
(* database.rs: the catalog.                                               *)
(***************************************************************************)
\* struct FileDesc
FileDesc(map_hash, fs, inline_data, valid_to) ==
    [map_hash |-> map_hash, files |-> fs, inline_data |-> inline_data,
     valid_to |-> valid_to]

ValidTos == {None} \cup {Some(t) : t \in 0..MaxTime}
Reporters == {"r1", "r2"}

\* the (files, inline_data) pairs of the registrations drawn
Uploads == {<<FilesA, <<>> >>, <<FilesB1, BytesB1>>, <<FilesB2, <<>> >>}

\* struct RegisterHash
RegisterMsgs ==
    {[files |-> u[1], valid_to |-> v, inline_data |-> u[2], reporter |-> r] :
        u \in Uploads, v \in ValidTos, r \in Reporters}

\* old_is_longer with the comparison of the deadlines turned round
old_is_longer_reversed(prev_valid_to, new_valid_to) ==
    CASE prev_valid_to = None -> TRUE
      [] IsSome(prev_valid_to) /\ IsSome(new_valid_to) ->
            Unwrap(prev_valid_to) < Unwrap(new_valid_to)
      [] OTHER -> FALSE

\* old_is_longer with ties going to the stored entry
old_is_longer_or_equal(prev_valid_to, new_valid_to) ==
    CASE prev_valid_to = None -> TRUE
      [] IsSome(prev_valid_to) /\ IsSome(new_valid_to) ->
            Unwrap(prev_valid_to) >= Unwrap(new_valid_to)
      [] OTHER -> FALSE

\* old_is_longer of Handler<RegisterHash>
old_is_longer(prev_valid_to, new_valid_to) ==
    CASE prev_valid_to = None -> TRUE
      [] IsSome(prev_valid_to) /\ IsSome(new_valid_to) ->
            Unwrap(prev_valid_to) > Unwrap(new_valid_to)
      [] OTHER -> FALSE

\* Handler<RegisterHash>
RegisterHash(msg) ==
    LET map_hash == hash_bundles(FileMapsOf(msg.files))
        desc == FileDesc(map_hash, msg.files, msg.inline_data, msg.valid_to)
    IN  files' =
            IF map_hash \in DOMAIN files
            THEN IF ~old_is_longer(files[map_hash].desc.valid_to, msg.valid_to)
                 THEN [files EXCEPT ![map_hash].desc = desc]
                 ELSE files
            ELSE files @@ (map_hash :> [desc |-> desc, reporter |-> msg.reporter])

\* Handler<GetHash>: the reply, the catalog being left as it is
GetHash(hash) == IF hash \in DOMAIN files THEN Some(files[hash]) ELSE None

\* a removal that empties the catalog
RemoveHashAll(hash) == files' = << >>

\* Handler<RemoveHash>
RemoveHash(hash) == files' = [h \in DOMAIN files \ {hash} |-> files[h]]

\* Handler<List>: the reply, the catalog being left as it is
List == {files[h].desc : h \in DOMAIN files}

\* the filter with the deadline itself counted as expired
ExpiredAtDeadline(desc, t) ==
    IF IsSome(desc.valid_to) THEN Unwrap(desc.valid_to) <= t ELSE FALSE

\* the filter of remove_old_resources: valid_to is present and before now
Expired(desc, t) ==
    IF IsSome(desc.valid_to) THEN Unwrap(desc.valid_to) < t ELSE FALSE

\* the hashes remove_old_resources collects at time t
expired_file_hashes(t) == {h \in DOMAIN files : Expired(files[h].desc, t)}

\* DatabaseManager::remove_old_resources
remove_old_resources ==
    files' = [h \in DOMAIN files \ expired_file_hashes(now) |-> files[h]]

\* Handler<Gc>, sent by GcWorker's interval timer
Gc == remove_old_resources

\* the record of a handled message: its inputs, its reply and, for a
\* RegisterHash, the entry it found
Handled(op, hash, msg, reply, prev) ==
    [op |-> op, hash |-> hash, msg |-> msg, reply |-> reply, prev |-> prev]

Hashes == {HashA, HashB}

\* DatabaseManager as database_manager() builds it
InitDb ==
    /\ files = << >>
    /\ now = 0
    /\ dbOp = Handled("init", 0, None, None, None)

(***************************************************************************)
(* codec.rs: the commands on the wire.                                     *)
(***************************************************************************)
PROTO_VERSION == 1

Nop == [op |-> "Nop"]
Bye == [op |-> "Bye"]
\* struct Hello
Hello(proto_version, node_id) ==
    [op |-> "Hello", proto_version |-> proto_version, node_id |-> node_id]
\* StCommand::hello
hello(id) == Hello(PROTO_VERSION, id)
\* a version check that lets every HELLO through
is_valid_any(h) == TRUE

\* Hello::is_valid
is_valid(h) == h.proto_version = PROTO_VERSION
\* StCommand::Ask
Ask(hash) == [op |-> "Ask", hash |-> hash]
\* StCommand::ask_reply
ask_reply(hash, fs) == [op |-> "AskReply", hash |-> hash, files |-> fs]
\* struct GetBlock
GetBlock(hash, file_nr, block_nr) ==
    [op |-> "GetBlock", hash |-> hash, file_nr |-> file_nr, block_nr |-> block_nr]
\* StCommand::block
block(hash, file_nr, block_nr, bytes) ==
    [op |-> "Block", hash |-> hash, block_nr |-> block_nr, file_nr |-> file_nr,
     bytes |-> bytes]

\* a limit one byte above the decoder's
MaxPacketSizePlusOne == 8388608 + 1

\* the largest payload the decoder admits, in bytes
MAX_PACKET_SIZE == 8388608

\* enum Op, as u8
Op == [Nop |-> 0, Hello |-> 1, Ask |-> 2, AskReply |-> 3, GetBlock |-> 4,
       Block |-> 5]

\* TryFrom<u8> for Op
try_from(value) ==
    CASE value = 0 -> Some("Nop")
      [] value = 1 -> Some("Hello")
      [] value = 2 -> Some("Ask")
      [] value = 3 -> Some("AskReply")
      [] value = 4 -> Some("GetBlock")
      [] value = 5 -> Some("Block")
      [] OTHER -> None

\* a table that takes a HELLO for one byte shorter than it is
OpSizeShortHello(op) ==
    CASE op = "Nop" -> Some(0)
      [] op = "Hello" -> Some(16)
      [] op = "Ask" -> Some(16)
      [] OTHER -> None

\* Op::size
OpSize(op) ==
    CASE op = "Nop" -> Some(0)
      [] op = "Hello" -> Some(17)
      [] op = "Ask" -> Some(16)
      [] OTHER -> None

RECURSIVE put_le(_, _)
\* put_u32_le, and the fixed-width little-endian integers of bincode: the n
\* low bytes of v
put_le(v, n) ==
    IF n = 0 THEN <<>> ELSE <<v % 256>> \o put_le(v \div 256, n - 1)

RECURSIVE read_le(_)
\* LittleEndian::read_u32, and the integers bincode reads
read_le(bytes) ==
    IF bytes = <<>> THEN 0 ELSE Head(bytes) + 256 * read_le(Tail(bytes))

RECURSIVE Flatten(_)
\* the byte strings of ss one after another
Flatten(ss) == IF ss = <<>> THEN <<>> ELSE Head(ss) \o Flatten(Tail(ss))

\* a Vec or a String: its length as u64, then its items, ss holding the
\* bytes of each
SerVec(ss) == put_le(Len(ss), 8) \o Flatten(ss)

\* Serialize for FileMap: file_name, file_size, blocks
SerFileMap(m) ==
    SerVec([i \in 1..Len(NameBytes(m.file_name)) |->
               <<NameBytes(m.file_name)[i]>>])
        \o put_le(m.file_size, 8)
        \o SerVec([i \in 1..Len(m.blocks) |-> put_le(m.blocks[i], 16)])

\* a Block written with file_nr before block_nr
SerBlockFileFirst(b) ==
    put_le(b.hash, 16) \o put_le(b.file_nr, 4) \o put_le(b.block_nr, 4)
        \o SerVec([i \in 1..Len(b.bytes) |-> <<b.bytes[i]>>])

\* Serialize for Block: hash, block_nr, file_nr, bytes
SerBlock(b) ==
    put_le(b.hash, 16) \o put_le(b.block_nr, 4) \o put_le(b.file_nr, 4)
        \o SerVec([i \in 1..Len(b.bytes) |-> <<b.bytes[i]>>])

\* bincode::serialize_into of what a command carries
serialize(msg) ==
    CASE msg.op = "Nop" -> <<>>
      [] msg.op = "Hello" -> <<msg.proto_version>> \o put_le(msg.node_id, 16)
      [] msg.op = "Ask" -> put_le(msg.hash, 16)
      [] msg.op = "AskReply" ->
            put_le(msg.hash, 16)
                \o IF msg.files = None THEN <<0>>
                   ELSE <<1>> \o SerVec([i \in 1..Len(Unwrap(msg.files)) |->
                                            SerFileMap(Unwrap(msg.files)[i])])
      [] msg.op = "GetBlock" ->
            put_le(msg.hash, 16) \o put_le(msg.file_nr, 4)
                \o put_le(msg.block_nr, 4)
      [] msg.op = "Block" -> SerBlock(msg)

\* bincode::serialized_size
serialized_size(msg) == Len(serialize(msg))

\* Encoder::encode: the buffer dst after msg was written to it
encode(msg, dst) ==
    LET prefix_size == IF msg.op \in {"AskReply", "GetBlock", "Block"}
                       THEN 4 ELSE 0
        sz == CASE msg.op = "Nop" -> 0
                [] msg.op = "Hello" -> 17
                [] msg.op = "Ask" -> 16
                [] OTHER -> serialized_size(msg)
    IN  dst \o <<Op[msg.op]>>
            \o (IF prefix_size = 4 THEN put_le(sz, 4) ELSE <<>>)
            \o serialize(msg)

\* a read of bincode that yields val and leaves rest
Parsed(val, rest) == Some([val |-> val, rest |-> rest])

\* the next n bytes of a slice, if it has them
Take(buf, n) ==
    IF Len(buf) < n THEN None
    ELSE Parsed(SubSeq(buf, 1, n), SubSeq(buf, n + 1, Len(buf)))

\* an integer of n bytes
DeInt(buf, n) ==
    IF Take(buf, n) = None THEN None
    ELSE Parsed(read_le(Unwrap(Take(buf, n)).val), Unwrap(Take(buf, n)).rest)

\* a Vec<u8> or a String: its length as u64, then its bytes
DeBytes(buf) ==
    IF DeInt(buf, 8) = None THEN None
    ELSE Take(Unwrap(DeInt(buf, 8)).rest, Unwrap(DeInt(buf, 8)).val)

\* a Vec<u128>: its length as u64, then 16 bytes for each item
DeU128s(buf) ==
    LET n == DeInt(buf, 8)
        raw == Take(Unwrap(n).rest, 16 * Unwrap(n).val)
    IN  IF n = None \/ raw = None THEN None
        ELSE Parsed([i \in 1..Unwrap(n).val |->
                        read_le(SubSeq(Unwrap(raw).val, 16 * i - 15, 16 * i))],
                    Unwrap(raw).rest)

\* the file name that has the given bytes
NameOf(bytes) ==
    CASE bytes = <<97>> -> "a"
      [] bytes = <<98>> -> "b"
      [] OTHER -> "ab"

\* Deserialize for FileMap
DeFileMap(buf) ==
    LET name == DeBytes(buf)
        fsize == DeInt(Unwrap(name).rest, 8)
        blocks == DeU128s(Unwrap(fsize).rest)
    IN  IF name = None \/ fsize = None \/ blocks = None THEN None
        ELSE Parsed(FileMap(NameOf(Unwrap(name).val), Unwrap(fsize).val,
                            Unwrap(blocks).val),
                    Unwrap(blocks).rest)

RECURSIVE DeFileMaps(_, _)
\* n FileMaps one after another
DeFileMaps(buf, n) ==
    IF n = 0 THEN Parsed(<<>>, buf)
    ELSE LET h == DeFileMap(buf)
             t == DeFileMaps(Unwrap(h).rest, n - 1)
         IN  IF h = None \/ t = None THEN None
             ELSE Parsed(<<Unwrap(h).val>> \o Unwrap(t).val, Unwrap(t).rest)

\* Deserialize for AskReply, after its hash
DeFiles(buf) ==
    LET tag == DeInt(buf, 1)
    IN  IF tag = None THEN None
        ELSE IF Unwrap(tag).val = 0 THEN Parsed(None, Unwrap(tag).rest)
        ELSE IF Unwrap(tag).val = 1
        THEN LET n == DeInt(Unwrap(tag).rest, 8)
                 fs == DeFileMaps(Unwrap(n).rest, Unwrap(n).val)
             IN  IF n = None \/ fs = None THEN None
                 ELSE Parsed(Some(Unwrap(fs).val), Unwrap(fs).rest)
        ELSE None

\* StCommand::decode: bincode::deserialize of the payload of a frame, None
\* standing for its error
deserialize(op, buf) ==
    LET hash == DeInt(buf, 16)
        a == DeInt(Unwrap(hash).rest, 4)
        b == DeInt(Unwrap(a).rest, 4)
    IN  CASE op = "Nop" -> Some(Nop)
          [] op = "Hello" ->
                IF Take(buf, 1) = None \/ DeInt(Unwrap(Take(buf, 1)).rest, 16) = None
                THEN None
                ELSE Some(Hello(buf[1],
                                Unwrap(DeInt(Unwrap(Take(buf, 1)).rest, 16)).val))
          [] op = "Ask" ->
                IF hash = None THEN None ELSE Some(Ask(Unwrap(hash).val))
          [] op = "AskReply" ->
                IF hash = None \/ DeFiles(Unwrap(hash).rest) = None THEN None
                ELSE Some(ask_reply(Unwrap(hash).val,
                                    Unwrap(DeFiles(Unwrap(hash).rest)).val))
          [] op = "GetBlock" ->
                IF hash = None \/ a = None \/ b = None THEN None
                ELSE Some(GetBlock(Unwrap(hash).val, Unwrap(a).val,
                                   Unwrap(b).val))
          [] op = "Block" ->
                IF hash = None \/ a = None \/ b = None
                   \/ DeBytes(Unwrap(b).rest) = None
                THEN None
                ELSE Some(block(Unwrap(hash).val, Unwrap(b).val, Unwrap(a).val,
                                Unwrap(DeBytes(Unwrap(b).rest)).val))

\* what Decoder::decode returns and the buffer it leaves
Decoded(ret, buf) == [ret |-> ret, src |-> buf]

\* Decoder::decode
decode(src) ==
    IF Len(src) < 1 THEN Decoded(<<"Ok", None>>, src)
    ELSE IF try_from(src[1]) = None
    THEN Decoded(<<"Err", "unknown packet opcode">>, src)
    ELSE LET op_code == Unwrap(try_from(src[1]))
         IN  IF OpSize(op_code) = None /\ Len(src) < 5
             THEN Decoded(<<"Ok", None>>, src)
             ELSE LET prefix_size == IF OpSize(op_code) = None THEN 4 ELSE 0
                      sz == IF OpSize(op_code) = None
                            THEN read_le(SubSeq(src, 2, 5))
                            ELSE Unwrap(OpSize(op_code))
                      buf == SubSeq(src, prefix_size + 2, prefix_size + 1 + sz)
                      rest == SubSeq(src, prefix_size + sz + 2, Len(src))
                  IN  IF sz > MAX_PACKET_SIZE
                      THEN Decoded(<<"Err", "packet too big">>, src)
                      ELSE IF Len(src) >= sz + prefix_size + 1
                      THEN IF deserialize(op_code, buf) = None
                           THEN Decoded(<<"Err", "bincode">>, rest)
                           ELSE Decoded(<<"Ok", deserialize(op_code, buf)>>, rest)
                      ELSE Decoded(<<"Ok", None>>, src)

(***************************************************************************)
(* Bounds and inputs of the connection.                                    *)
(***************************************************************************)
\* frames read from the peer, messages sent to the actor by local callers
\* and changes of the catalog, together
MaxEvents == 4

\* node ids: this node's and the peer's
NodeId == 11
PeerNode == 22

\* the local files behind the registered paths: size and bytes per block;
\* "/srv/b", registered with its inline data, is no longer there
Disk ==
    ("/srv/a" :> [file_size |-> BLOCK_SIZE + 1, blocks |-> <<BytesA1, BytesA2>>])
    @@ ("/tmp/b" :> [file_size |-> 2, blocks |-> <<BytesB1>>])
    @@ ("/srv/e" :> [file_size |-> 0, blocks |-> <<>>])

\* the catalog a connection is opened against
Catalog ==
    (HashA :> [desc |-> FileDesc(HashA, FilesA, <<>>, None), reporter |-> "r1"])
    @@ (HashB :> [desc |-> FileDesc(HashB, FilesB1, BytesB1, Some(MaxTime)),
                  reporter |-> "r1"])
    @@ (HashE :> [desc |-> FileDesc(HashE, FilesE, <<>>, None), reporter |-> "r1"])

\* the frames the peer may send
PeerFrames ==
    {Nop, Bye, Hello(PROTO_VERSION, PeerNode), Hello(PROTO_VERSION + 1, PeerNode)}
    \cup {Ask(h) : h \in {HashA, HashB, HashE, HashAB}}
    \cup {ask_reply(HashA, Some(<<FM_a>>)), ask_reply(HashA, None)}
    \cup {GetBlock(HashA, 0, 0), GetBlock(HashA, 0, 2), GetBlock(HashA, 1, 0),
          GetBlock(HashB, 0, 0), GetBlock(HashE, 0, 0)}
    \cup {block(HashA, 0, 0, BytesA1), block(HashA, 0, 1, BytesBad)}

\* the requests local callers may send to the actor
LocalAsks == {HashA, HashB}
LocalGetBlocks == {GetBlock(HashA, 0, 0), GetBlock(HashA, 0, 1)}

(***************************************************************************)
(* connection.rs                                                           *)
(***************************************************************************)
HANDSHAKE_TIMEOUT == 60
\* seconds between Handler<Bye> and its close_with_error
ByeDelaySecs == 5
\* milliseconds between close_with_error and ctx.stop()
StopDelayMillis == 10

Pending == <<"Pending">>
Canceled == <<"Canceled">>
Ok(v) == <<"Ok", v>>
Err(e) == <<"Err", e>>

\* ProtocolError::into_err: the Error that carries the protocol error
into_err(e) == <<"ProtocolError", e>>

\* senders held in the two request maps
Held == {p[2] : p \in block_requests} \cup {p[2] : p \in ask_requests}

\* HashMap::insert: the pair for key k replaces any pair with that key
HashMapInsert(map, k, v) == {p \in map : p[1] # k} \cup {<<k, v>>}

\* an insert that hands back no previous sender: the sender it replaced is
\* kept alive
ReplacedKept(map, k) == {}

\* the senders HashMap::insert returns (and the caller drops)
Replaced(map, k) == {p[2] : p \in {q \in map : q[1] = k}}

\* HashMap::remove
HashMapRemove(map, k) == {p \in map : p[1] # k}

\* oneshot::Sender::send on the senders in rs, with outcome o
Complete(rs, o) ==
    [i \in DOMAIN responders |->
        IF i \in rs /\ responders[i].outcome = Pending
        THEN [responders[i] EXCEPT !.outcome = o]
        ELSE responders[i]]

\* a close that fails the block requests and forgets the ask requests
close_with_error_blocks_only(e, tms) ==
    /\ responders' = Complete({p[2] : p \in block_requests}, Err(into_err(e)))
    /\ block_requests' = {}
    /\ ask_requests' = ask_requests
    /\ framed_closed' = TRUE
    /\ timers' = tms \cup {[kind |-> "stop", after |-> StopDelayMillis, armed |-> clock]}

\* Connection::close_with_error, tms being the timers still armed
close_with_error(e, tms) ==
    /\ responders' = Complete(Held, Err(into_err(e)))
    /\ block_requests' = {}
    /\ ask_requests' = {}
    /\ framed_closed' = TRUE
    /\ timers' = tms \cup {[kind |-> "stop", after |-> StopDelayMillis, armed |-> clock]}

\* ctx.stop(): the actor stops and is dropped with its maps, its spawned
\* futures and its timers; a dropped sender cancels its receiver
stop ==
    /\ actor' = "Stopped"
    /\ responders' = Complete(Held, Canceled)
    /\ block_requests' = {}
    /\ ask_requests' = {}
    /\ lookups' = <<>>
    /\ timers' = {}

\* a reply that names the bundle and leaves out its FileMaps
send_ask_reply_no_maps(file_desc) ==
    framed' = Append(framed, ask_reply(file_desc.map_hash, Some(<<>>)))

\* Connection::send_ask_reply
send_ask_reply(file_desc) ==
    framed' = Append(framed, ask_reply(file_desc.map_hash,
                                       Some(FileMapsOf(file_desc.files))))

\* a not-found reply that carries an empty list of files
send_ask_reply_empty(hash) ==
    framed' = Append(framed, ask_reply(hash, Some(<<>>)))

\* Connection::send_ask_reply_not_found
send_ask_reply_not_found(hash) ==
    framed' = Append(framed, ask_reply(hash, None))

\* a handle_ask that asks the catalog every time
handle_ask_uncached(hash) ==
    /\ lookups' = Append(lookups, [hash |-> hash, state |-> "sent",
                                   reply |-> None])
    /\ UNCHANGED <<actor, peer_id, current_file, block_requests,
                   ask_requests, responders, framed, framed_closed, timers>>

\* Connection::handle_ask
handle_ask(hash) ==
    IF IsSome(current_file) /\ Unwrap(current_file).map_hash = hash
    THEN /\ send_ask_reply(Unwrap(current_file))
         /\ UNCHANGED <<actor, peer_id, current_file, block_requests,
                        ask_requests, responders, framed_closed, lookups, timers>>
    ELSE /\ lookups' = Append(lookups, [hash |-> hash, state |-> "sent",
                                        reply |-> None])
         /\ UNCHANGED <<actor, peer_id, current_file, block_requests,
                        ask_requests, responders, framed, framed_closed, timers>>

Min(a, b) == IF a < b THEN a ELSE b

\* the read loop of read_block: size bytes of file f from offset
ReadExact(f, offset, size) ==
    IF size = 0 THEN [ok |-> TRUE, bytes |-> <<>>]
    ELSE IF f.file_size < offset + size
    THEN [ok |-> FALSE, bytes |-> <<>>]
    ELSE LET k == offset \div BLOCK_SIZE
             have == Min(f.file_size - offset, BLOCK_SIZE)
             words == f.blocks[k + 1]
         IN  [ok |-> TRUE,
              bytes |-> IF size = have THEN words
                        ELSE SubSeq(words, 1, Len(words) - 1)]

\* read_block
read_block(path, file_map, block_no) ==
    LET offset == block_no * BLOCK_SIZE
    IN  IF file_map.file_size < offset THEN [ok |-> FALSE, bytes |-> <<>>]
        ELSE IF path \notin DOMAIN Disk THEN [ok |-> FALSE, bytes |-> <<>>]
        ELSE ReadExact(Disk[path], offset,
                       Min(file_map.file_size - offset, BLOCK_SIZE))

\* a guard that accepts any bundle once one is current
IsCurrentAny(hash) == IsSome(current_file)

\* the guard of handle_get_block: the bundle asked for is the current one
IsCurrent(hash) == IsSome(current_file) /\ Unwrap(current_file).map_hash = hash

\* a handle_get_block that takes the bundle from the catalog as it is when
\* the GET_BLOCK arrives
GetBlockReplyFromCatalog(g) ==
    IF ~IsCurrent(g.hash) \/ g.hash \notin DOMAIN files THEN None
    ELSE LET file_map == files[g.hash].desc
         IN  IF Len(file_map.inline_data) > 0 /\ g.file_nr = 0 /\ g.block_nr = 0
             THEN Some(block(g.hash, g.file_nr, g.block_nr, file_map.inline_data))
             ELSE IF g.file_nr + 1 > Len(file_map.files) THEN None
             ELSE LET r == read_block(file_map.files[g.file_nr + 1][2],
                                      file_map.files[g.file_nr + 1][1],
                                      g.block_nr)
                  IN  IF r.ok
                      THEN Some(block(g.hash, g.file_nr, g.block_nr, r.bytes))
                      ELSE None

\* a handle_get_block without the inline case: every payload is read from
\* the local file
GetBlockReplyFromFile(g) ==
    IF ~IsCurrent(g.hash) THEN None
    ELSE LET file_map == Unwrap(current_file)
         IN  IF g.file_nr + 1 > Len(file_map.files) THEN None
             ELSE LET r == read_block(file_map.files[g.file_nr + 1][2],
                                      file_map.files[g.file_nr + 1][1],
                                      g.block_nr)
                  IN  IF r.ok
                      THEN Some(block(g.hash, g.file_nr, g.block_nr, r.bytes))
                      ELSE None

\* what handle_get_block answers: a BLOCK frame, or none when it stops
GetBlockReply(g) ==
    IF ~IsCurrent(g.hash) THEN None
    ELSE LET file_map == Unwrap(current_file)
         IN  IF Len(file_map.inline_data) > 0 /\ g.file_nr = 0 /\ g.block_nr = 0
             THEN Some(block(g.hash, g.file_nr, g.block_nr, file_map.inline_data))
             ELSE IF g.file_nr + 1 > Len(file_map.files) THEN None
             ELSE LET r == read_block(file_map.files[g.file_nr + 1][2],
                                      file_map.files[g.file_nr + 1][1],
                                      g.block_nr)
                  IN  IF r.ok
                      THEN Some(block(g.hash, g.file_nr, g.block_nr, r.bytes))
                      ELSE None

\* Connection::handle_get_block
handle_get_block(g) ==
    IF IsSome(GetBlockReply(g))
    THEN /\ framed' = Append(framed, Unwrap(GetBlockReply(g)))
         /\ UNCHANGED <<actor, peer_id, current_file, block_requests,
                        ask_requests, responders, framed_closed, lookups, timers>>
    ELSE /\ stop
         /\ UNCHANGED <<peer_id, current_file, framed, framed_closed>>

\* a key that leaves out the file and the block
KeyOfHashOnly(b) == GetBlock(b.hash, 0, 0)

\* the key a BLOCK answers
KeyOf(b) == GetBlock(b.hash, b.file_nr, b.block_nr)

\* Connection::handle_block
handle_block(b) ==
    /\ block_requests' = HashMapRemove(block_requests, KeyOf(b))
    /\ responders' = Complete(Replaced(block_requests, KeyOf(b)), Ok(b))
    /\ UNCHANGED <<actor, peer_id, current_file, ask_requests, framed,
                   framed_closed, lookups, timers>>

\* Connection::handle_ask_reply
handle_ask_reply(r) ==
    /\ ask_requests' = HashMapRemove(ask_requests, r.hash)
    /\ responders' = Complete(Replaced(ask_requests, r.hash), Ok(r))
    /\ UNCHANGED <<actor, peer_id, current_file, block_requests, framed,
                   framed_closed, lookups, timers>>

\* one more frame, message or catalog change
Event ==
    /\ events < MaxEvents
    /\ events' = events + 1
    /\ UNCHANGED <<asked, clock>>

\* the frame is read while the actor runs
Reads(item) ==
    /\ actor = "Running"
    /\ events < MaxEvents
    /\ events' = events + 1
    /\ asked' = IF item.op = "Ask" /\ IsSome(peer_id)
                THEN Append(asked, item.hash) ELSE asked
    /\ UNCHANGED <<hello_fut, clock>>
    /\ connOp' = [op |-> "frame", arg |-> item]
    /\ UNCHANGED <<dbVars, dlVars, codecVars, mbVars, bootVars, hashVars, readVars>>

\* StreamHandler::handle, StCommand::Nop
RecvNop ==
    /\ Reads(Nop)
    /\ UNCHANGED <<actor, peer_id, current_file, block_requests, ask_requests,
                   responders, framed, framed_closed, lookups, timers>>

\* StreamHandler::handle, StCommand::Bye
RecvBye ==
    /\ Reads(Bye)
    /\ close_with_error("Disconnect", timers)
    /\ UNCHANGED <<actor, peer_id, current_file, framed, lookups>>

\* StreamHandler::handle, StCommand::Hello
RecvHello(h) ==
    /\ Reads(h)
    /\ IF is_valid(h)
       THEN /\ peer_id' = Some(h.node_id)
            /\ UNCHANGED <<actor, current_file, block_requests, ask_requests,
                           responders, framed, framed_closed, lookups, timers>>
       ELSE /\ close_with_error("InvalidHandshake", timers)
            /\ UNCHANGED <<actor, peer_id, current_file, framed, lookups>>

\* a StreamHandler that hands every ASK to handle_ask
RecvAskUnchecked(item) == Reads(item) /\ handle_ask(item.hash)

\* StreamHandler::handle, StCommand::Ask
RecvAsk(item) ==
    /\ Reads(item)
    /\ IF peer_id = None
       THEN /\ close_with_error("MissingHandshake", timers)
            /\ UNCHANGED <<actor, peer_id, current_file, framed, lookups>>
       ELSE handle_ask(item.hash)

\* StreamHandler::handle, StCommand::AskReply
RecvAskReply(item) == Reads(item) /\ handle_ask_reply(item)

\* StreamHandler::handle, StCommand::GetBlock
RecvGetBlock(item) == Reads(item) /\ handle_get_block(item)

\* StreamHandler::handle, StCommand::Block
RecvBlock(item) == Reads(item) /\ handle_block(item)

\* the inbound stream ends or fails to decode: StreamHandler's default
\* error() and finished() stop the actor
StreamFinished ==
    /\ actor = "Running"
    /\ stop
    /\ connOp' = [op |-> "stream_end", arg |-> None]
    /\ UNCHANGED <<dbVars, dlVars, codecVars, mbVars, bootVars, hashVars, readVars, peer_id, current_file, framed, framed_closed, events, asked, hello_fut, clock>>

\* a new oneshot channel for a request with the given key
NewResponder(kind, key) == [kind |-> kind, key |-> key, outcome |-> Pending]

\* Handler<Ask> for Connection
Handler_Ask(hash) ==
    /\ actor = "Running"
    /\ hello_fut = "done"
    /\ Event
    /\ UNCHANGED hello_fut
    /\ ask_requests' = HashMapInsert(ask_requests, hash, Len(responders) + 1)
    /\ responders' = Append(Complete(Replaced(ask_requests, hash), Canceled),
                            NewResponder("ask", hash))
    /\ framed' = IF Replaced(ask_requests, hash) # {} THEN framed
                 ELSE Append(framed, Ask(hash))
    /\ connOp' = [op |-> "Ask", arg |-> hash]
    /\ UNCHANGED <<dbVars, dlVars, codecVars, mbVars, bootVars, hashVars, readVars, actor, peer_id, current_file, block_requests,
                   framed_closed, lookups, timers>>

\* Handler<GetBlock> for Connection
Handler_GetBlock(msg) ==
    /\ actor = "Running"
    /\ hello_fut = "done"
    /\ Event
    /\ UNCHANGED hello_fut
    /\ block_requests' = HashMapInsert(block_requests, msg, Len(responders) + 1)
    /\ responders' = Append(Complete(Replaced(block_requests, msg), Canceled),
                            NewResponder("block", msg))
    /\ framed' = IF Replaced(block_requests, msg) # {} THEN framed
                 ELSE Append(framed, msg)
    /\ connOp' = [op |-> "GetBlock", arg |-> msg]
    /\ UNCHANGED <<dbVars, dlVars, codecVars, mbVars, bootVars, hashVars, readVars, actor, peer_id, current_file, ask_requests,
                   framed_closed, lookups, timers>>

\* Handler<Hello> for Connection: the future of Connection::new or
\* Connection::new_managed, polled by its owner, has got the node id and
\* sends Hello to the actor; it resolves to the connection when the handler
\* has returned
Handler_Hello ==
    /\ actor = "Running"
    /\ Event
    /\ hello_fut = "polled"
    /\ hello_fut' = "done"
    /\ framed' = Append(framed, hello(NodeId))
    /\ connOp' = [op |-> "Hello", arg |-> NodeId]
    /\ UNCHANGED <<dbVars, dlVars, codecVars, mbVars, bootVars, hashVars, readVars, actor, peer_id, current_file, block_requests,
                   ask_requests, responders, framed_closed, lookups, timers>>

\* Handler<Bye> for Connection, sent once by the drop of the ConnectionRef:
\* of the one the future of new_managed resolved to, or of the one inside
\* that future when it is dropped before (its id failed, its race was lost)
Handler_Bye ==
    /\ actor = "Running"
    /\ Event
    /\ hello_fut \in {"polled", "done"}
    /\ hello_fut' = IF hello_fut = "polled" THEN "dropped" ELSE hello_fut
    /\ \A i \in 1..Len(framed) : framed[i].op # "Bye"
    /\ framed' = Append(framed, Bye)
    /\ timers' = timers \cup {[kind |-> "bye", after |-> ByeDelaySecs * 1000,
                                armed |-> clock]}
    /\ connOp' = [op |-> "Bye", arg |-> None]
    /\ UNCHANGED <<dbVars, dlVars, codecVars, mbVars, bootVars, hashVars, readVars, actor, peer_id, current_file, block_requests,
                   ask_requests, responders, framed_closed, lookups>>

\* a timer that expires as soon as it is armed
DueAtOnce(t) == t \in timers

\* run_later: an armed timer expires once its delay has passed, in
\* milliseconds since it was armed
Due(t) == t \in timers /\ clock >= t.armed + t.after

\* time passes up to the next moment an armed timer is set for
TimePasses ==
    /\ \E t \in timers :
          /\ clock < t.armed + t.after
          /\ \A u \in timers :
                clock < u.armed + u.after => t.armed + t.after <= u.armed + u.after
          /\ clock' = t.armed + t.after
    /\ connOp' = [op |-> "time", arg |-> None]
    /\ UNCHANGED <<dbVars, dlVars, codecVars, mbVars, bootVars, hashVars, readVars, actor, peer_id, current_file, block_requests,
                   ask_requests, responders, framed, framed_closed, lookups,
                   timers, events, asked, hello_fut>>

\* a handshake timer that closes whether or not a HELLO was received
HandshakeTimerAlways ==
    \E t \in timers :
        /\ actor = "Running"
        /\ Due(t)
        /\ t.kind = "handshake"
        /\ connOp' = [op |-> "handshake_timer", arg |-> None]
        /\ close_with_error("HandshakeTimeout", timers \ {t})
        /\ UNCHANGED <<dbVars, dlVars, codecVars, mbVars, bootVars, hashVars, readVars, actor, peer_id, current_file, framed, lookups,
                       events, asked, hello_fut, clock>>

\* the closure started() arms with run_later(HANDSHAKE_TIMEOUT)
HandshakeTimer ==
    \E t \in timers :
        /\ actor = "Running"
        /\ Due(t)
        /\ t.kind = "handshake"
        /\ connOp' = [op |-> "handshake_timer", arg |-> None]
        /\ IF peer_id = None
           THEN close_with_error("HandshakeTimeout", timers \ {t})
           ELSE /\ timers' = timers \ {t}
                /\ UNCHANGED <<block_requests, ask_requests, responders,
                               framed_closed>>
        /\ UNCHANGED <<dbVars, dlVars, codecVars, mbVars, bootVars, hashVars, readVars, actor, peer_id, current_file, framed, lookups,
                       events, asked, hello_fut, clock>>

\* the closure Handler<Bye> arms with run_later
ByeTimer ==
    \E t \in timers :
        /\ actor = "Running"
        /\ Due(t)
        /\ t.kind = "bye"
        /\ connOp' = [op |-> "bye_timer", arg |-> None]
        /\ close_with_error("DisconnectByMe", timers \ {t})
        /\ UNCHANGED <<dbVars, dlVars, codecVars, mbVars, bootVars, hashVars, readVars, actor, peer_id, current_file, framed, lookups,
                       events, asked, hello_fut, clock>>

\* the closure close_with_error arms with run_later
StopTimer ==
    \E t \in timers :
        /\ actor = "Running"
        /\ Due(t)
        /\ t.kind = "stop"
        /\ connOp' = [op |-> "stop_timer", arg |-> None]
        /\ stop
        /\ UNCHANGED <<dbVars, dlVars, codecVars, mbVars, bootVars, hashVars, readVars, peer_id, current_file, framed, framed_closed,
                       events, asked, hello_fut, clock>>

\* the DatabaseManager handles the GetHash of the oldest unanswered lookup
LookupServed ==
    \E i \in 1..Len(lookups) :
        /\ lookups[i].state = "sent"
        /\ \A j \in 1..(i - 1) : lookups[j].state # "sent"
        /\ lookups' = [lookups EXCEPT ![i] =
              [hash |-> lookups[i].hash, state |-> "replied",
               reply |-> IF IsSome(GetHash(lookups[i].hash))
                         THEN Some(Unwrap(GetHash(lookups[i].hash)).desc)
                         ELSE None]]
        /\ connOp' = [op |-> "db_reply", arg |-> lookups[i].hash]
        /\ UNCHANGED <<dbVars, dlVars, codecVars, mbVars, bootVars, hashVars, readVars, actor, peer_id, current_file, block_requests,
                       ask_requests, responders, framed, framed_closed, timers,
                       events, asked, hello_fut, clock>>

\* the send of GetHash fails: the mailbox of the DatabaseManager is closed
LookupFailed ==
    \E i \in 1..Len(lookups) :
        /\ lookups[i].state = "sent"
        /\ Event
        /\ UNCHANGED hello_fut
        /\ lookups' = [lookups EXCEPT ![i].state = "failed"]
        /\ connOp' = [op |-> "db_closed", arg |-> lookups[i].hash]
        /\ UNCHANGED <<dbVars, dlVars, codecVars, mbVars, bootVars, hashVars, readVars, actor, peer_id, current_file, block_requests,
                       ask_requests, responders, framed, framed_closed, timers>>

\* s without its i-th element
Without(s, i) == SubSeq(s, 1, i - 1) \o SubSeq(s, i + 1, Len(s))

\* the continuation of handle_ask's future: and_then on a reply, map_err on
\* a failure
LookupDone ==
    \E i \in 1..Len(lookups) :
        /\ actor = "Running"
        /\ lookups[i].state # "sent"
        /\ connOp' = [op |-> "lookup", arg |-> lookups[i]]
        /\ IF lookups[i].state = "failed"
           THEN /\ stop
                /\ UNCHANGED <<peer_id, current_file, framed, framed_closed>>
           ELSE IF IsSome(lookups[i].reply)
           THEN IF Unwrap(lookups[i].reply).map_hash = lookups[i].hash
                THEN /\ current_file' = lookups[i].reply
                     /\ send_ask_reply(Unwrap(lookups[i].reply))
                     /\ lookups' = Without(lookups, i)
                     /\ UNCHANGED <<actor, peer_id, block_requests, ask_requests,
                                    responders, framed_closed, timers>>
                ELSE /\ actor' = "Panicked"
                     /\ UNCHANGED <<peer_id, current_file, block_requests,
                                    ask_requests, responders, framed,
                                    framed_closed, lookups, timers>>
           ELSE /\ send_ask_reply_not_found(lookups[i].hash)
                /\ lookups' = Without(lookups, i)
                /\ UNCHANGED <<actor, peer_id, current_file, block_requests,
                               ask_requests, responders, framed_closed, timers>>
        /\ UNCHANGED <<dbVars, dlVars, codecVars, mbVars, bootVars, hashVars, readVars, events, asked, hello_fut, clock>>

\* the catalog changes while the connection is open
CatalogMsgs ==
    {[files |-> FilesB2, valid_to |-> Some(MaxTime), inline_data |-> <<>>,
      reporter |-> "r2"]}

CatalogRegister ==
    /\ actor = "Running"
    /\ Event
    /\ UNCHANGED hello_fut
    /\ \E msg \in CatalogMsgs : RegisterHash(msg)
    /\ connOp' = [op |-> "RegisterHash", arg |-> None]
    /\ UNCHANGED <<now, dbOp, dlVars, codecVars, mbVars, bootVars, hashVars, readVars, actor, peer_id, current_file, block_requests,
                   ask_requests, responders, framed, framed_closed, lookups,
                   timers>>

CatalogRemove ==
    /\ actor = "Running"
    /\ Event
    /\ UNCHANGED hello_fut
    /\ RemoveHash(HashB)
    /\ connOp' = [op |-> "RemoveHash", arg |-> HashB]
    /\ UNCHANGED <<now, dbOp, dlVars, codecVars, mbVars, bootVars, hashVars, readVars, actor, peer_id, current_file, block_requests,
                   ask_requests, responders, framed, framed_closed, lookups,
                   timers>>

\* Handler<Gc> at a time after every deadline, while the connection is open
CatalogGc ==
    /\ actor = "Running"
    /\ Event
    /\ UNCHANGED hello_fut
    /\ now < MaxTime + 1
    /\ now' = MaxTime + 1
    /\ files' = [h \in DOMAIN files \ expired_file_hashes(now') |-> files[h]]
    /\ connOp' = [op |-> "Gc", arg |-> None]
    /\ UNCHANGED <<dbOp, dlVars, codecVars, mbVars, bootVars, hashVars, readVars, actor, peer_id, current_file, block_requests,
                   ask_requests, responders, framed, framed_closed, lookups,
                   timers>>

(***************************************************************************)
(* download.rs and State::download of main.rs: the peer race and the      *)
(* block-by-block download from the peer that won it.                      *)
(***************************************************************************)
\* peers a download is given
MaxPeers == 2
Peers == 1..MaxPeers

\* the hash a download asks for
DlHash == HashA

\* the file lists a peer may put in its ASK_REPLY
ReplyFiles == {<<FM_a>>, <<FM_b, FM_a>>}

\* the payloads a peer may put in a BLOCK
Payloads == {BytesA1, BytesA2, BytesB1, BytesBad}

\* the errors a branch of the race may end with before its ASK is answered
BranchErrors == {<<"Canceled">>, into_err("InvalidHandshake")}

\* the errors a GetBlock request may end with
BlockErrors == {<<"Timeout">>, into_err("Disconnect")}

ResourceNotFound(hash) == <<"ResourceNotFound", hash>>
InvalidBlockHash(hash) == <<"InvalidBlockHash", hash>>

\* one future of the vector find_peer hands to select_ok
Branch(state, reply) == [state |-> state, reply |-> reply]

\* a Connection of the download: its actor ("none" before new_managed,
\* "running", "closing" after close_with_error, "stopped"), its ConnectionRef
\* ("none", "held", "dropped"), whether the peer's valid HELLO was received,
\* and the BYE frames written on it
Link(actor_state, ref, hello_received, byes) ==
    [actor |-> actor_state, ref |-> ref, hello |-> hello_received,
     byes |-> byes]

\* a drop that sends nothing
DropRefSilent(l) ==
    IF l.ref # "held" THEN l ELSE [l EXCEPT !.ref = "dropped"]

\* Drop for ConnectionRef: do_send(Bye), which a stopped actor never gets;
\* Handler<Bye> writes BYE
DropRef(l) ==
    IF l.ref # "held" THEN l
    ELSE [l EXCEPT !.ref = "dropped",
                   !.byes = IF l.actor = "stopped" THEN @ ELSE @ + 1]

\* a clone that is a ConnectionRef of its own, dropped with the file
DropCloneAsRef(l) == DropRef(l)

\* the `connection.clone()` of State::download is dropped when its file is
\* complete: ConnectionRef is not Clone, the clone is the Addr it derefs to
DropClone(l) == l

\* State::download before find_peer is polled
InitDl ==
    /\ links = [p \in Peers |-> Link("none", "none", FALSE, 0)]
    /\ branches = [p \in Peers |-> Branch("connecting", None)]
    /\ dl = [pc |-> "find_peer", files |-> <<>>, winner |-> 0, file_no |-> 0,
             block_no |-> 0, result |-> None]
    /\ out = <<>>
    /\ got = <<>>
    /\ reqs = <<>>

\* FramedRead::new: nothing written, nothing read
InitCodec ==
    /\ wire = <<>>
    /\ inbuf = <<>>
    /\ sent = <<>>
    /\ recv = <<>>
    /\ result = <<"Ok", None>>

\* SyncArbiter::start: the queue of the DatabaseManager is empty
InitMb ==
    /\ mailbox = <<>>
    /\ served = <<>>

(***************************************************************************)
(* database.rs: the start of the DatabaseManager on its data directory.    *)
(***************************************************************************)
\* metadata format
FORMAT_VERSION == 1

\* struct Meta as read from the file "meta"
Meta(format, id) == [kind |-> "json", format |-> format, id |-> id]

\* a data directory: its metadata file, its other files and whether it can
\* be listed and written
Dir(meta, entries, listable, writable) ==
    [meta |-> meta, entries |-> entries, listable |-> listable,
     writable |-> writable]

\* what a step of the start returns: the error ("" for Ok), the directory
\* and the fields of the DatabaseManager it leaves
Loaded(err, dir, id, fs) == [err |-> err, dir |-> dir, id |-> id, files |-> fs]

\* Path::extension: the part of the file name after its last dot
extension(name) == name[2]

\* DatabaseManager::load_hash over the entries es that decode
load_hash(es) ==
    [h \in {Unwrap(e.desc).map_hash : e \in es} |->
        [desc |-> Unwrap((CHOOSE e \in es : Unwrap(e.desc).map_hash = h).desc),
         reporter |-> "empty"]]

\* DatabaseManager::load
load(d) ==
    IF d.meta = None THEN Loaded("MetadataNotFound", d, None, << >>)
    ELSE IF Unwrap(d.meta).kind = "unreadable" THEN Loaded("IO", d, None, << >>)
    ELSE IF Unwrap(d.meta).kind = "garbage"
    THEN Loaded("InvalidJsonFormat", d, None, << >>)
    ELSE IF Unwrap(d.meta).format # FORMAT_VERSION
    THEN Loaded("InvalidMetaVersion", d, None, << >>)
    ELSE IF ~d.listable THEN Loaded("IO", d, Some(Unwrap(d.meta).id), << >>)
    ELSE LET hashed == {e \in d.entries : extension(e.name) = ".fhash"}
             good == {e \in hashed : IsSome(e.desc)}
         IN  IF hashed # good /\ ~d.writable
             THEN Loaded("IO", d, Some(Unwrap(d.meta).id), load_hash(good))
             ELSE Loaded("", [d EXCEPT !.entries = d.entries \ (hashed \ good)],
                         Some(Unwrap(d.meta).id), load_hash(good))

\* DatabaseManager::clear_dir
clear_dir(d) == d

\* DatabaseManager::init, l being what load left and fresh the random id
init(l, fresh) ==
    IF ~l.dir.writable THEN Loaded("IO", l.dir, l.id, l.files)
    ELSE Loaded("", [l.dir EXCEPT !.meta = Some(Meta(FORMAT_VERSION, fresh))],
                Some(fresh), l.files)

\* the errors of load after which started() builds new metadata
Recoverable == {"InvalidMetaVersion", "MetadataNotFound", "InvalidJsonFormat"}

\* the process and the thread of the DatabaseManager
System(state, db) == [state |-> state, db |-> db]

\* the DatabaseManager of a running node, started on an empty directory
InitBooted ==
    /\ db_dir = Dir(Some(Meta(FORMAT_VERSION, NodeId)), {}, TRUE, TRUE)
    /\ db_id = Some(NodeId)
    /\ system = System("running", "started")

(***************************************************************************)
(* filemap.rs: hash_file.                                                  *)
(***************************************************************************)
\* the locals of hash_file: file_size as metadata() gave it, the bytes the
\* file holds while it is read (on_disk), the two counters, the bytes each
\* pushed block hash covers, the short reads so far, and the result
HashState(pc, file_size, on_disk, rem_file_bytes, rem_block_bytes, blocks,
          short, res) ==
    [pc |-> pc, file_size |-> file_size, on_disk |-> on_disk,
     rem_file_bytes |-> rem_file_bytes, rem_block_bytes |-> rem_block_bytes,
     blocks |-> blocks, short |-> short, result |-> res]

\* hash_file up to `let mut rem_file_bytes = file_size`
hash_file(file_size, on_disk) ==
    HashState("outer", file_size, on_disk, file_size, 0, <<>>, 0, "")

\* num_of_blocks
num_of_blocks(file_size) == (file_size + BLOCK_SIZE - 1) \div BLOCK_SIZE

\* no file is being hashed
InitHash == hf = HashState("done", 0, 0, 0, 0, <<>>, 0, "Ok")

\* the arguments and locals of read_block: the FileMap's file_size and
\* blocks, the bytes the file at path holds (None when it cannot be opened),
\* block_no, offset, size, the bytes of bytes_vec filled so far, the short
\* reads so far, and the result
ReadState(pc, file_size, blocks, on_disk, block_no, offset, size, filled,
          short, res) ==
    [pc |-> pc, file_size |-> file_size, blocks |-> blocks,
     on_disk |-> on_disk, block_no |-> block_no, offset |-> offset,
     size |-> size, filled |-> filled, short |-> short, result |-> res]

\* no block is being read
InitRead == rb = ReadState("idle", 0, <<>>, None, 0, 0, 0, 0, 0, "")

\* Connection as new_addr() builds it and started() arms it
InitConn ==
    /\ actor = "Running"
    /\ peer_id = None
    /\ current_file = None
    /\ block_requests = {}
    /\ ask_requests = {}
    /\ responders = <<>>
    /\ framed = <<>>
    /\ framed_closed = FALSE
    /\ lookups = <<>>
    /\ timers = {[kind |-> "handshake", after |-> HANDSHAKE_TIMEOUT * 1000,
                  armed |-> 0]}
    /\ clock = 0
    /\ connOp = [op |-> "started", arg |-> None]
    /\ events = 0
    /\ asked = <<>>

Init ==
    /\ files = Catalog
    /\ now = 0
    /\ dbOp = Handled("init", 0, None, None, None)
    /\ InitConn
    /\ hello_fut \in {"polled", "unpolled"}
    /\ InitDl
    /\ InitCodec
    /\ InitMb
    /\ InitBooted
    /\ InitHash
    /\ InitRead

Next ==
    \/ RecvNop
    \/ RecvBye
    \/ \E h \in {f \in PeerFrames : f.op = "Hello"} : RecvHello(h)
    \/ \E item \in {f \in PeerFrames : f.op = "Ask"} : RecvAsk(item)
    \/ \E item \in {f \in PeerFrames : f.op = "AskReply"} : RecvAskReply(item)
    \/ \E item \in {f \in PeerFrames : f.op = "GetBlock"} : RecvGetBlock(item)
    \/ \E item \in {f \in PeerFrames : f.op = "Block"} : RecvBlock(item)
    \/ StreamFinished
    \/ \E hash \in LocalAsks : Handler_Ask(hash)
    \/ \E msg \in LocalGetBlocks : Handler_GetBlock(msg)
    \/ Handler_Hello
    \/ Handler_Bye
    \/ HandshakeTimer
    \/ ByeTimer
    \/ StopTimer
    \/ TimePasses
    \/ LookupServed
    \/ LookupFailed
    \/ LookupDone
    \/ CatalogRegister
    \/ CatalogRemove
    \/ CatalogGc

Spec == Init /\ [][Next]_vars

(***************************************************************************)
(* Properties of the connection.                                           *)
(***************************************************************************)
\* the responders whose receiver still waits
PendingIn(rs) == {i \in DOMAIN rs : rs[i].outcome = Pending}

\* the connection is closing or closed
Closing == framed_closed \/ actor # "Running"

\* the protocol error a handled frame or timer closes the connection with,
\* pid being peer_id when it is handled
CloseReason(op, pid) ==
    IF op.op = "frame"
    THEN IF op.arg.op = "Bye" THEN Some("Disconnect")
         ELSE IF op.arg.op = "Hello" /\ op.arg.proto_version # PROTO_VERSION
         THEN Some("InvalidHandshake")
         ELSE IF op.arg.op = "Ask" /\ pid = None THEN Some("MissingHandshake")
         ELSE None
    ELSE IF op.op = "handshake_timer" /\ pid = None THEN Some("HandshakeTimeout")
    ELSE IF op.op = "bye_timer" THEN Some("DisconnectByMe")
    ELSE None

C4_PendingUnique ==
    /\ \A i, j \in PendingIn(responders) :
          (responders[i].kind = responders[j].kind
           /\ responders[i].key = responders[j].key) => i = j
    /\ \A p, q \in ask_requests : p[1] = q[1] => p = q
    /\ \A p, q \in block_requests : p[1] = q[1] => p = q
    /\ PendingIn(responders) =
          {p[2] : p \in block_requests} \cup {p[2] : p \in ask_requests}

\* a request was repeated under the same key: the first is cancelled, the
\* second pending
C4_Witness ==
    \E i, j \in DOMAIN responders :
        /\ i < j
        /\ responders[i].kind = responders[j].kind
        /\ responders[i].key = responders[j].key
        /\ responders[i].outcome = Canceled
        /\ responders[j].outcome = Pending

\* C5: an inbound GET_BLOCK is answered with a BLOCK only if current_file is
\* set and has the hash asked for, and the BLOCK answers that request; when
\* current_file is unset or has another hash nothing is written and the
\* actor stops.
C5_GetBlockOnlyCurrent ==
    [][(connOp'.op = "frame" /\ connOp'.arg.op = "GetBlock") =>
          IF IsSome(current_file)
             /\ Unwrap(current_file).map_hash = connOp'.arg.hash
          THEN \/ framed' = framed /\ actor' = "Stopped"
               \/ /\ Len(framed') = Len(framed) + 1
                  /\ SubSeq(framed', 1, Len(framed)) = framed
                  /\ framed'[Len(framed')].op = "Block"
                  /\ KeyOf(framed'[Len(framed')]) = connOp'.arg
          ELSE framed' = framed /\ actor' = "Stopped"]_vars

\* a GET_BLOCK for another bundle than the current one stopped the actor
C5_Witness ==
    /\ connOp.op = "frame"
    /\ connOp.arg.op = "GetBlock"
    /\ IsSome(current_file)
    /\ Unwrap(current_file).map_hash # connOp.arg.hash
    /\ actor = "Stopped"

\* the number of elements of s that satisfy Test
Count(s, Test(_)) == Len(SelectSeq(s, Test))

\* the ASK_REPLY frames written for hash h
RepliesFor(h) == Count(framed, LAMBDA f : f.op = "AskReply" /\ f.hash = h)

HandshakeTimerArmed ==
    [kind |-> "handshake", after |-> HANDSHAKE_TIMEOUT * 1000, armed |-> 0]

\* C10: the handshake timer is armed for 60 seconds when the connection
\* opens and stays armed while no valid HELLO has arrived; when it fires
\* with peer_id unset the connection is closed with HandshakeTimeout (the
\* pending responders fail with it, the writer is closed, the stop is
\* scheduled); when it fires after a valid HELLO it changes nothing.
C10_HandshakeTimeout ==
    [][/\ connOp'.op = "handshake_timer" =>
            /\ HandshakeTimerArmed \in timers
            /\ HandshakeTimerArmed \notin timers'
            /\ IF peer_id = None
               THEN /\ framed_closed'
                    /\ \A i \in PendingIn(responders) :
                          responders'[i].outcome =
                              Err(into_err("HandshakeTimeout"))
                    /\ block_requests' = {}
                    /\ ask_requests' = {}
                    /\ \E t \in timers' : t.kind = "stop"
               ELSE UNCHANGED <<actor, peer_id, current_file, block_requests,
                                ask_requests, responders, framed,
                                framed_closed, lookups>>
       /\ (actor' = "Running" /\ peer_id' = None /\ ~framed_closed') =>
            HandshakeTimerArmed \in timers']_vars

\* the timer fired on a connection that got no HELLO
C10_Witness ==
    /\ connOp.op = "handshake_timer"
    /\ peer_id = None
    /\ framed_closed
    /\ actor = "Running"
    /\ \E i \in DOMAIN responders :
          responders[i].outcome = Err(into_err("HandshakeTimeout"))

\* C11: an inbound HELLO whose proto_version is not 1 closes the connection
\* with InvalidHandshake (pending responders fail with it, the writer is
\* closed, the stop is scheduled) and leaves peer_id as it was; an inbound
\* HELLO with proto_version 1 sets peer_id to its node_id and changes
\* nothing else, so the connection stays as open as it was.
C11_HelloVersion ==
    [][(connOp'.op = "frame" /\ connOp'.arg.op = "Hello") =>
          IF connOp'.arg.proto_version = 1
          THEN /\ peer_id' = Some(connOp'.arg.node_id)
               /\ UNCHANGED <<actor, current_file, block_requests,
                              ask_requests, responders, framed, framed_closed,
                              lookups, timers>>
          ELSE /\ peer_id' = peer_id
               /\ framed_closed'
               /\ actor' = actor
               /\ \A i \in PendingIn(responders) :
                     responders'[i].outcome = Err(into_err("InvalidHandshake"))
               /\ block_requests' = {}
               /\ ask_requests' = {}
               /\ \E t \in timers' : t.kind = "stop"]_vars

\* a HELLO of another version closed a connection that had a request pending
C11_Witness ==
    /\ connOp.op = "frame"
    /\ connOp.arg.op = "Hello"
    /\ connOp.arg.proto_version # 1
    /\ peer_id = None
    /\ framed_closed
    /\ \E i \in DOMAIN responders :
          responders[i].outcome = Err(into_err("InvalidHandshake"))

\* the frames that carry requests and replies
Traffic == {"Ask", "AskReply", "GetBlock", "Block"}

\* C12 as claimed: each side writes HELLO with proto_version 1 and its own
\* node id as the first frame on the link, before any ASK, ASK_REPLY,
\* GET_BLOCK or BLOCK it writes.
C12_HelloFirst ==
    \A i \in DOMAIN framed :
        framed[i].op \in Traffic =>
            \E j \in 1..(i - 1) :
                /\ framed[j] = Hello(1, NodeId)
                /\ \A k \in 1..(j - 1) : framed[k].op \notin Traffic

\* C13: the handler of a local Bye writes the BYE frame, closes nothing in
\* that step and arms a timer 5000 ms ahead; the close with DisconnectByMe
\* happens only in the step of that timer, never less than 5000 ms after the
\* BYE was written, and it closes the sink and fails what is pending; the
\* step that handles a received BYE frame leaves the connection closing.
C13_ByeClose ==
    [][/\ connOp'.op = "Bye" =>
            /\ framed' = Append(framed, Bye)
            /\ framed_closed' = framed_closed
            /\ actor' = actor
            /\ responders' = responders
            /\ timers' = timers \cup {[kind |-> "bye", after |-> 5000,
                                       armed |-> clock]}
       /\ connOp'.op = "bye_timer" =>
            /\ \E t \in timers \ timers' :
                  t.kind = "bye" /\ clock >= t.armed + 5000
            /\ framed_closed'
            /\ \A i \in PendingIn(responders) :
                  responders'[i].outcome = Err(into_err("DisconnectByMe"))
       /\ (\E i \in DOMAIN responders :
              /\ responders[i].outcome = Pending
              /\ responders'[i].outcome = Err(into_err("DisconnectByMe"))) =>
            connOp'.op = "bye_timer"
       /\ (connOp'.op = "frame" /\ connOp'.arg.op = "Bye") =>
            framed_closed' /\ Closing']_vars

\* the timer of a local Bye closed the connection and failed a pending
\* request, 5 s or more after the start
C13_Witness ==
    /\ connOp.op = "bye_timer"
    /\ framed_closed
    /\ clock >= 5000
    /\ \E i \in DOMAIN framed : framed[i] = Bye
    /\ \E i \in DOMAIN responders :
          responders[i].outcome = Err(into_err("DisconnectByMe"))

\* the file of the current bundle a GET_BLOCK names, when it has one
FileOf(g) == Unwrap(current_file).files[g.file_nr + 1]

\* C22: an inbound GET_BLOCK for the current bundle with file_nr 0 and
\* block_nr 0 is answered, when the bundle has inline data, with a BLOCK
\* whose payload is that inline data, whether or not the local file can be
\* opened; in every other case the payload written is the block of the local
\* file behind the path registered for file_nr (no bytes for a block that
\* starts where the file ends), and when that file is not there or the block
\* starts beyond its end nothing is written and the actor stops.
C22_InlineBlock ==
    [][(/\ connOp'.op = "frame"
        /\ connOp'.arg.op = "GetBlock"
        /\ IsSome(current_file)
        /\ Unwrap(current_file).map_hash = connOp'.arg.hash) =>
          IF /\ Unwrap(current_file).inline_data # <<>>
             /\ connOp'.arg.file_nr = 0
             /\ connOp'.arg.block_nr = 0
          THEN /\ framed' = Append(framed,
                      block(connOp'.arg.hash, 0, 0,
                            Unwrap(current_file).inline_data))
               /\ actor' = actor
          ELSE IF /\ connOp'.arg.file_nr < Len(Unwrap(current_file).files)
                  /\ FileOf(connOp'.arg)[2] \in DOMAIN Disk
                  /\ connOp'.arg.block_nr * BLOCK_SIZE
                        = FileOf(connOp'.arg)[1].file_size
          THEN /\ framed' = Append(framed,
                      block(connOp'.arg.hash, connOp'.arg.file_nr,
                            connOp'.arg.block_nr, <<>>))
               /\ actor' = actor
          ELSE IF /\ connOp'.arg.file_nr < Len(Unwrap(current_file).files)
                  /\ FileOf(connOp'.arg)[2] \in DOMAIN Disk
                  /\ connOp'.arg.block_nr * BLOCK_SIZE
                        < FileOf(connOp'.arg)[1].file_size
                  /\ FileOf(connOp'.arg)[1].file_size
                        = Disk[FileOf(connOp'.arg)[2]].file_size
          THEN /\ framed' = Append(framed,
                      block(connOp'.arg.hash, connOp'.arg.file_nr,
                            connOp'.arg.block_nr,
                            Disk[FileOf(connOp'.arg)[2]]
                                .blocks[connOp'.arg.block_nr + 1]))
               /\ actor' = actor
          ELSE framed' = framed /\ actor' = "Stopped"]_vars

\* block 0 of file 0 was answered from the inline data of a bundle whose
\* local file is gone
C22_Witness ==
    /\ connOp.op = "frame"
    /\ connOp.arg = GetBlock(HashB, 0, 0)
    /\ actor = "Running"
    /\ IsSome(current_file)
    /\ Unwrap(current_file).inline_data = BytesB1
    /\ Unwrap(current_file).files[1][2] \notin DOMAIN Disk
    /\ framed # <<>>
    /\ framed[Len(framed)] = block(HashB, 0, 0, BytesB1)

\* C25 as claimed: the replies to inbound requests are written in the order
\* the requests were received: a step that handles an ASK or GET_BLOCK
\* frame writes its reply only when no earlier ASK still waits for its
\* catalog lookup, and the continuation of a lookup writes the reply of the
\* oldest ASK that waits.
C25_RepliesInOrder ==
    [][/\ (/\ connOp'.op = "frame"
           /\ connOp'.arg.op \in {"Ask", "GetBlock"}
           /\ Len(framed') > Len(framed)) => lookups = <<>>
       /\ (connOp'.op = "lookup" /\ Len(framed') > Len(framed)) =>
             lookups' = Tail(lookups)]_vars

\* C26 as claimed: while no valid HELLO was received (peer_id unset) an
\* inbound ASK closes the connection with MissingHandshake, with no lookup
\* and no frame written, and an inbound ASK_REPLY, BLOCK or GET_BLOCK
\* completes no pending responder with a reply and writes no frame.
C26_OpeningOnlyHello ==
    [][(connOp'.op = "frame" /\ peer_id = None) =>
          /\ connOp'.arg.op = "Ask" =>
                /\ framed_closed'
                /\ lookups' = lookups
                /\ framed' = framed
                /\ \A i \in PendingIn(responders) :
                      responders'[i].outcome = Err(into_err("MissingHandshake"))
          /\ connOp'.arg.op \in {"AskReply", "Block", "GetBlock"} =>
                /\ framed' = framed
                /\ \A i \in PendingIn(responders) :
                      responders'[i].outcome[1] # "Ok"]_vars

\* the connection wrote BYE
ByeWritten == \E i \in DOMAIN framed : framed[i].op = "Bye"

\* C27 as claimed: once the connection wrote BYE or started to close (on an
\* error or on a received BYE) it writes no further frame, and a frame it
\* receives starts no lookup and completes no responder with a reply.
C27_ClosingSilent ==
    [][(ByeWritten \/ Closing) =>
          /\ framed' = framed
          /\ connOp'.op = "frame" =>
                /\ lookups' = lookups
                /\ \A i \in PendingIn(responders) :
                      responders'[i].outcome[1] # "Ok"]_vars

\* the local request handled in the step repeats a key that has a pending
\* responder
DuplicateRequest ==
    \/ connOp'.op = "Ask" /\ \E p \in ask_requests : p[1] = connOp'.arg
    \/ connOp'.op = "GetBlock" /\ \E p \in block_requests : p[1] = connOp'.arg

\* C28 as claimed: a local Ask or GetBlock for a key that has a pending
\* responder writes no frame and leaves the responder of the earlier request
\* registered and pending, so that the matching reply completes it.
C28_DuplicateDropped ==
    [][DuplicateRequest =>
          /\ framed' = framed
          /\ ask_requests' = ask_requests
          /\ block_requests' = block_requests
          /\ \A i \in PendingIn(responders) :
                responders'[i].outcome = Pending]_vars

\* the pairs of the pending maps that the reply frame r answers
MatchedBy(r) ==
    IF r.op = "Block"
    THEN {p \in block_requests :
             /\ p[1].hash = r.hash
             /\ p[1].file_nr = r.file_nr
             /\ p[1].block_nr = r.block_nr}
    ELSE {p \in ask_requests : p[1] = r.hash}

\* C29: an inbound BLOCK or ASK_REPLY completes the one pending responder
\* registered under its key with Ok of that frame and takes it out of its
\* map; every other responder and every other pair of the two maps stay as
\* they were; nothing else of the connection changes, and when no responder
\* is registered under the key nothing changes at all.
C29_ReplyCompletesOne ==
    [][(connOp'.op = "frame" /\ connOp'.arg.op \in {"Block", "AskReply"}) =>
          /\ \A p, q \in MatchedBy(connOp'.arg) : p = q
          /\ \A p \in MatchedBy(connOp'.arg) :
                /\ responders[p[2]].outcome = Pending
                /\ responders'[p[2]].outcome[1] = "Ok"
                /\ responders'[p[2]].outcome[2] = connOp'.arg
          /\ \A i \in DOMAIN responders :
                i \notin {p[2] : p \in MatchedBy(connOp'.arg)} =>
                    responders'[i] = responders[i]
          /\ DOMAIN responders' = DOMAIN responders
          /\ IF connOp'.arg.op = "Block"
             THEN /\ block_requests' = block_requests \ MatchedBy(connOp'.arg)
                  /\ ask_requests' = ask_requests
             ELSE /\ ask_requests' = ask_requests \ MatchedBy(connOp'.arg)
                  /\ block_requests' = block_requests
          /\ UNCHANGED <<actor, peer_id, current_file, framed, framed_closed,
                         lookups, timers>>]_vars

\* a BLOCK completed the responder of its key while the responder of
\* another block of the same file stays pending
C29_Witness ==
    /\ connOp.op = "frame"
    /\ connOp.arg = block(HashA, 0, 0, BytesA1)
    /\ actor = "Running"
    /\ \E i, j \in DOMAIN responders :
          /\ responders[i].kind = "block"
          /\ responders[i].key = GetBlock(HashA, 0, 0)
          /\ responders[i].outcome[1] = "Ok"
          /\ responders[i].outcome[2] = connOp.arg
          /\ responders[j].kind = "block"
          /\ responders[j].key = GetBlock(HashA, 0, 1)
          /\ responders[j].outcome = Pending
          /\ block_requests = {<<GetBlock(HashA, 0, 1), j>>}

\* the positions of the ASK_REPLY frames written with Some(files)
AnsweredAt ==
    {i \in DOMAIN framed : framed[i].op = "AskReply" /\ IsSome(framed[i].files)}

\* C30: current_file is unset as long as no ASK_REPLY with Some(files) was
\* written on the link; after that it is set, and the most recent ASK_REPLY
\* with Some(files) carries its map_hash and the FileMaps of its files, in
\* order.
C30_CurrentIsLastAnswered ==
    IF AnsweredAt = {}
    THEN current_file = None
    ELSE /\ IsSome(current_file)
         /\ \E i \in AnsweredAt :
               /\ \A j \in AnsweredAt : j <= i
               /\ framed[i].hash = Unwrap(current_file).map_hash
               /\ Unwrap(framed[i].files) = FileMapsOf(Unwrap(current_file).files)

\* two bundles were answered one after the other by the continuations of
\* their lookups; the one answered last is the current one
C30_Witness ==
    /\ connOp.op = "lookup"
    /\ Len(asked) = 2
    /\ \E i, j \in AnsweredAt :
          /\ i < j
          /\ framed[i].hash # framed[j].hash
          /\ framed[j].hash = Unwrap(current_file).map_hash
          /\ Unwrap(framed[j].files) = <<FM_a>>

\* the GET_BLOCK names no block of the bundle: its file_nr is not below the
\* number of files, or its block_nr not below the number of blocks of the file
NoSuchBlock(fd, g) ==
    \/ g.file_nr >= Len(fd.files)
    \/ g.block_nr >= Len(fd.files[g.file_nr + 1][1].blocks)

\* C31: an inbound GET_BLOCK for the current bundle that names no block of it
\* (file_nr not below the number of files, or block_nr not below the number
\* of blocks of the file, block 0 of an empty file included) is answered with
\* no BLOCK and stops the actor.
C31_NoSuchBlockCloses ==
    [][(/\ connOp'.op = "frame"
        /\ connOp'.arg.op = "GetBlock"
        /\ IsSome(current_file)
        /\ Unwrap(current_file).map_hash = connOp'.arg.hash
        /\ NoSuchBlock(Unwrap(current_file), connOp'.arg)) =>
          /\ framed' = framed
          /\ actor' = "Stopped"]_vars

\* what a GET_BLOCK g is answered with when it is served from the FileDesc
\* fd: a BLOCK, or None
ServedFrom(fd, g) ==
    IF Len(fd.inline_data) > 0 /\ g.file_nr = 0 /\ g.block_nr = 0
    THEN Some(block(g.hash, g.file_nr, g.block_nr, fd.inline_data))
    ELSE IF g.file_nr >= Len(fd.files) THEN None
    ELSE LET r == read_block(fd.files[g.file_nr + 1][2],
                             fd.files[g.file_nr + 1][1], g.block_nr)
         IN  IF r.ok THEN Some(block(g.hash, g.file_nr, g.block_nr, r.bytes))
             ELSE None

\* C35: while a Connection holds bundle h in current_file, an ASK(h) is
\* answered at once with the FileMaps of that FileDesc and a GET_BLOCK for h
\* is served from it, no GetHash being sent, whatever the catalog holds
\* under h by then; current_file changes only when a lookup comes back with
\* a FileDesc, to that FileDesc.
C35_CachedBundleServed ==
    [][/\ (/\ connOp'.op = "frame"
           /\ connOp'.arg.op = "Ask"
           /\ IsSome(peer_id)
           /\ IsSome(current_file)
           /\ Unwrap(current_file).map_hash = connOp'.arg.hash) =>
             /\ framed' = Append(framed,
                   ask_reply(connOp'.arg.hash,
                             Some(FileMapsOf(Unwrap(current_file).files))))
             /\ lookups' = lookups
             /\ actor' = actor
       /\ (/\ connOp'.op = "frame"
           /\ connOp'.arg.op = "GetBlock"
           /\ IsSome(current_file)
           /\ Unwrap(current_file).map_hash = connOp'.arg.hash) =>
             /\ lookups' = lookups \/ actor' = "Stopped"
             /\ IF IsSome(ServedFrom(Unwrap(current_file), connOp'.arg))
                THEN framed' = Append(framed,
                        Unwrap(ServedFrom(Unwrap(current_file), connOp'.arg)))
                ELSE framed' = framed
       /\ current_file' # current_file =>
             /\ connOp'.op = "lookup"
             /\ IsSome(connOp'.arg.reply)
             /\ current_file' = connOp'.arg.reply]_vars

\* a block of a bundle that is in the catalog no longer was served from the
\* cached FileDesc
C35_Witness ==
    /\ connOp.op = "frame"
    /\ connOp.arg = GetBlock(HashB, 0, 0)
    /\ IsSome(current_file)
    /\ Unwrap(current_file).map_hash = HashB
    /\ HashB \notin DOMAIN files
    /\ actor = "Running"
    /\ framed[Len(framed)] = block(HashB, 0, 0, BytesB1)

\* the same after the sweep of the GC
ServedAfterGc ==
    /\ connOp.op = "frame"
    /\ connOp.arg.op \in {"Ask", "GetBlock"}
    /\ now = MaxTime + 1
    /\ IsSome(current_file)
    /\ Unwrap(current_file).map_hash = HashB
    /\ HashB \notin DOMAIN files
    /\ actor = "Running"
    /\ framed[Len(framed)].op \in {"AskReply", "Block"}

\* the same after a registration that replaced the bundle in the catalog
ServedAfterReRegister ==
    /\ connOp.op = "frame"
    /\ connOp.arg = GetBlock(HashB, 0, 0)
    /\ IsSome(current_file)
    /\ HashB \in DOMAIN files
    /\ files[HashB].desc # Unwrap(current_file)
    /\ framed[Len(framed)] = block(HashB, 0, 0, BytesB1)

\* the frames written to the peer that carry content of a bundle
ContentFrames ==
    {i \in 1..Len(framed) :
        \/ framed[i].op = "Block"
        \/ framed[i].op = "AskReply" /\ IsSome(framed[i].files)}

\* C38: current_file is set only if a valid HELLO was received (peer_id is
\* set), and while peer_id is not set no ASK_REPLY with Some(files) and no
\* BLOCK has been written to the peer.
C38_NoContentBeforeHandshake ==
    /\ IsSome(current_file) => IsSome(peer_id)
    /\ peer_id = None => ContentFrames = {}

\* an ASK for a registered bundle arrived before any HELLO and was refused
C38_Witness ==
    /\ connOp.op = "frame"
    /\ connOp.arg.op = "Ask"
    /\ connOp.arg.hash \in DOMAIN files
    /\ peer_id = None
    /\ current_file = None
    /\ lookups = <<>>
    /\ ContentFrames = {}

\* after the HELLO the same ASK is answered with the files
ContentAfterHandshake ==
    /\ IsSome(peer_id)
    /\ IsSome(current_file)
    /\ ContentFrames # {}

\* the ASK the actor handled last came after the handshake
AskHandled ==
    /\ connOp'.op = "frame"
    /\ connOp'.arg.op = "Ask"
    /\ IsSome(peer_id)

\* the bundle the connection has cached is the one with this hash
Cached(hash) ==
    IsSome(current_file) /\ Unwrap(current_file).map_hash = hash

\* the lookup of an ASK came back from the catalog without a FileDesc
LookupNotFound ==
    /\ connOp'.op = "lookup"
    /\ connOp'.arg.state = "replied"
    /\ connOp'.arg.reply = None

\* what an ASK leaves alone when its hash is not found
AskLeavesState ==
    /\ current_file' = current_file
    /\ ask_requests' = ask_requests
    /\ block_requests' = block_requests
    /\ actor' = actor

\* C39 as stated: an inbound ASK for a hash the catalog does not hold gets
\* no answer but ASK_REPLY None, and leaves current_file, ask_requests and
\* block_requests unchanged.
C39_UnknownAskGetsNone ==
    [][/\ (AskHandled /\ connOp'.arg.hash \notin DOMAIN files) =>
             /\ \/ framed' = framed
                \/ framed' = Append(framed, ask_reply(connOp'.arg.hash, None))
             /\ AskLeavesState
       /\ LookupNotFound =>
             /\ framed' = Append(framed, ask_reply(connOp'.arg.hash, None))
             /\ AskLeavesState]_vars

\* C39, amended: an inbound ASK for a hash other than the cached bundle's is
\* handed to the catalog without a frame being written; when the catalog
\* answers that it does not hold the hash, ASK_REPLY None is written and
\* current_file, ask_requests and block_requests are left unchanged, so a
\* GET_BLOCK for the cached bundle is served afterwards as before.
C39_NotFoundLeavesState ==
    [][/\ (AskHandled /\ ~Cached(connOp'.arg.hash)) =>
             /\ framed' = framed
             /\ lookups' = Append(lookups, [hash |-> connOp'.arg.hash,
                                            state |-> "sent", reply |-> None])
             /\ AskLeavesState
       /\ LookupNotFound =>
             /\ framed' = Append(framed, ask_reply(connOp'.arg.hash, None))
             /\ AskLeavesState
       /\ (/\ connOp'.op = "frame"
           /\ connOp'.arg.op = "GetBlock"
           /\ Cached(connOp'.arg.hash)
           /\ \E i \in 1..Len(framed) :
                 framed[i].op = "AskReply" /\ framed[i].files = None
           /\ IsSome(ServedFrom(Unwrap(current_file), connOp'.arg))) =>
             framed' = Append(framed,
                Unwrap(ServedFrom(Unwrap(current_file), connOp'.arg)))]_vars

\* HashB was asked and cached, an ASK for a hash the catalog does not hold
\* was answered with ASK_REPLY None, and a GET_BLOCK for HashB after it was
\* served
C39_Witness ==
    /\ connOp.op = "frame"
    /\ connOp.arg = GetBlock(HashB, 0, 0)
    /\ Cached(HashB)
    /\ actor = "Running"
    /\ Len(framed) >= 2
    /\ framed[Len(framed)] = block(HashB, 0, 0, BytesB1)
    /\ framed[Len(framed) - 1] = ask_reply(HashAB, None)

\* an ASK for the cached bundle, which the catalog holds no longer, was
\* answered with its files
CachedAskAfterRemove ==
    /\ connOp.op = "frame"
    /\ connOp.arg = Ask(HashB)
    /\ Cached(HashB)
    /\ HashB \notin DOMAIN files
    /\ framed[Len(framed)].op = "AskReply"
    /\ IsSome(framed[Len(framed)].files)

(***************************************************************************)
(* The download: its race and its blocks, the catalog and the connection  *)
(* of this node idle.                                                      *)
(***************************************************************************)
\* a future of the race moves on, its Connection becoming l
Moves(p, to, l) ==
    /\ dl.pc = "find_peer"
    /\ branches' = [branches EXCEPT ![p] = to]
    /\ links' = [links EXCEPT ![p] = l]
    /\ UNCHANGED <<dbVars, connVars, codecVars, mbVars, bootVars, hashVars, readVars, dl, out, got, reqs>>

\* connect: TcpStream::connect succeeds, Connection::new_managed begins: the
\* actor is started and its ConnectionRef made
Connected(p) ==
    /\ branches[p].state = "connecting"
    /\ Moves(p, Branch("handshake", None), Link("running", "held", FALSE, 0))

\* connect: TcpStream::connect fails
ConnectFailed(p) ==
    /\ branches[p].state = "connecting"
    /\ Moves(p, Branch("ready", Err(<<"IO">>)), links[p])

\* Connection::new_managed: the Hello was sent, find_peer sends its Ask
HelloSent(p) ==
    /\ branches[p].state = "handshake"
    /\ Moves(p, Branch("asking", None), links[p])

\* Connection::new_managed: database::id or the send of Hello fails
HelloFailed(p) ==
    /\ branches[p].state = "handshake"
    /\ Moves(p, Branch("ready", Err(<<"Mailbox">>)), links[p])

\* StreamHandler::handle, StCommand::Hello: the peer's valid HELLO arrives
PeerHello(p) ==
    /\ branches[p].state \in {"handshake", "asking"}
    /\ links[p].actor = "running"
    /\ ~links[p].hello
    /\ Moves(p, branches[p], [links[p] EXCEPT !.hello = TRUE])

\* find_peer: the closure on the AskReply
AskReplyResult(reply) ==
    IF IsSome(reply.files) THEN Ok(Unwrap(reply.files))
    ELSE Err(ResourceNotFound(reply.hash))

\* find_peer: the Ask is answered by an AskReply
AskReplied(p, fs) ==
    /\ branches[p].state = "asking"
    /\ links[p].actor = "running"
    /\ Moves(p, Branch("ready", AskReplyResult(ask_reply(DlHash, fs))),
             links[p])

\* find_peer: the Ask fails: its actor stopped and dropped the sender
\* (Canceled), or closed with a protocol error
AskFailed(p, e) ==
    /\ branches[p].state = "asking"
    /\ links[p].actor = "running"
    /\ Moves(p, Branch("ready", Err(e)),
             [links[p] EXCEPT !.actor = IF e = <<"Canceled">> THEN "stopped"
                                        ELSE "closing"])

\* the closure of run_later(HANDSHAKE_TIMEOUT): no HELLO was received, the
\* pending Ask fails with HandshakeTimeout
HandshakeTimedOut(p) ==
    /\ branches[p].state = "asking"
    /\ links[p].actor = "running"
    /\ ~links[p].hello
    /\ Moves(p, Branch("ready", Err(into_err("HandshakeTimeout"))),
             [links[p] EXCEPT !.actor = "closing"])

\* the closure Handler<Bye> arms: close_with_error(DisconnectByMe), five
\* seconds after the BYE
LinkByeTimer(p) ==
    /\ links[p].actor = "running"
    /\ links[p].byes > 0
    /\ links' = [links EXCEPT ![p].actor = "closing"]
    /\ UNCHANGED <<dbVars, connVars, codecVars, mbVars, bootVars, hashVars, readVars, branches, dl, out, got, reqs>>

\* the closure close_with_error arms: ctx.stop()
LinkStopTimer(p) ==
    /\ links[p].actor = "closing"
    /\ links' = [links EXCEPT ![p].actor = "stopped"]
    /\ UNCHANGED <<dbVars, connVars, codecVars, mbVars, bootVars, hashVars, readVars, branches, dl, out, got, reqs>>

\* the futures select_ok still holds
Racing == {p \in Peers : branches[p].state \notin {"removed"}}

\* the first future, in the order of the vector, that is ready
FirstReady(p) ==
    /\ branches[p].state = "ready"
    /\ \A q \in Racing : q < p => branches[q].state # "ready"

\* State::download once find_peer has answered with files
Started(p, fs) ==
    IF fs = <<>>
    THEN [pc |-> "done", files |-> fs, winner |-> p, file_no |-> 0,
          block_no |-> 0, result |-> Ok(<<>>)]
    ELSE [pc |-> "open_file", files |-> fs, winner |-> p, file_no |-> 0,
          block_no |-> 0, result |-> None]

\* the Connections after a step of the download that leaves it at d: the
\* future of the download, resolved, is dropped with the ConnectionRef the
\* closure of its stream of files holds
AfterStep(d, ls) ==
    IF d.pc \in {"done", "failed"} /\ d.winner # 0
    THEN [ls EXCEPT ![d.winner] = DropRef(@)]
    ELSE ls

\* a poll that gives up at the first error it meets
SelectOkFailFast ==
    \E p \in Peers :
        /\ dl.pc = "find_peer"
        /\ FirstReady(p)
        /\ IF branches[p].reply[1] = "Ok"
           THEN /\ dl' = Started(p, branches[p].reply[2])
                /\ branches' = [q \in Peers |->
                      IF q = p THEN Branch("won", branches[q].reply)
                      ELSE IF q \in Racing
                      THEN Branch("dropped", branches[q].reply)
                      ELSE branches[q]]
                /\ links' = AfterStep(dl', [q \in Peers |->
                      IF q # p /\ q \in Racing THEN DropRef(links[q])
                      ELSE links[q]])
           ELSE /\ branches' = [branches EXCEPT ![p].state = "removed"]
                /\ dl' = [dl EXCEPT !.pc = "failed",
                                    !.result = Err(branches[p].reply[2])]
                /\ links' = [q \in Peers |-> DropRef(links[q])]
        /\ UNCHANGED <<dbVars, connVars, codecVars, mbVars, bootVars, hashVars, readVars, out, got, reqs>>

\* one turn of the loop of SelectOk::poll: the first ready future is taken
\* out; its Ok ends the race and drops the rest, its Err ends the race only
\* if no future is left; a future is dropped with the ConnectionRef it holds
SelectOk ==
    \E p \in Peers :
        /\ dl.pc = "find_peer"
        /\ FirstReady(p)
        /\ IF branches[p].reply[1] = "Ok"
           THEN /\ dl' = Started(p, branches[p].reply[2])
                /\ branches' = [q \in Peers |->
                      IF q = p THEN Branch("won", branches[q].reply)
                      ELSE IF q \in Racing
                      THEN Branch("dropped", branches[q].reply)
                      ELSE branches[q]]
                /\ links' = AfterStep(dl', [q \in Peers |->
                      IF q # p /\ q \in Racing THEN DropRef(links[q])
                      ELSE links[q]])
           ELSE /\ branches' = [branches EXCEPT ![p].state = "removed"]
                /\ dl' = IF Racing \ {p} = {}
                         THEN [dl EXCEPT !.pc = "failed",
                                         !.result = Err(branches[p].reply[2])]
                         ELSE dl
                /\ links' = [links EXCEPT ![p] = DropRef(@)]
        /\ UNCHANGED <<dbVars, connVars, codecVars, mbVars, bootVars, hashVars, readVars, out, got, reqs>>

\* the FileMap being downloaded
CurrentMap == dl.files[dl.file_no + 1]

\* the paths of the files written
OutPaths == [i \in 1..Len(out) |-> out[i].path]

\* State::download after a file is complete: the next file, or the response
AfterFile ==
    IF dl.file_no + 1 < Len(dl.files)
    THEN [dl EXCEPT !.pc = "open_file", !.file_no = dl.file_no + 1,
                    !.block_no = 0]
    ELSE [dl EXCEPT !.pc = "done", !.result = Ok(OutPaths')]

\* the Connections after a step of the stream of blocks: a file that is
\* complete drops its clone of the connection
AfterBlocks(d) ==
    AfterStep(d, IF d.file_no # dl.file_no \/ d.pc = "done"
                 THEN [links EXCEPT ![dl.winner] = DropClone(@)]
                 ELSE links)

\* a driver that sends the request for the block after it along with each
\* request
SendGetBlockPipelined(d) ==
    IF d.pc = "get_block"
    THEN reqs \o <<GetBlock(DlHash, d.file_no, d.block_no),
                   GetBlock(DlHash, d.file_no, d.block_no + 1)>>
    ELSE reqs

\* State::download: connection.send(GetBlock) for the block the stream of
\* blocks stands at in d, if it stands at one
SendGetBlock(d) ==
    IF d.pc = "get_block"
    THEN Append(reqs, GetBlock(DlHash, d.file_no, d.block_no))
    ELSE reqs

\* State::download: OpenOptions::create_new succeeds
OpenFile ==
    /\ dl.pc = "open_file"
    /\ out' = Append(out, [path |-> CurrentMap.file_name, blocks |-> <<>>])
    /\ dl' = IF CurrentMap.blocks = <<>> THEN AfterFile
             ELSE [dl EXCEPT !.pc = "get_block", !.block_no = 0]
    /\ reqs' = SendGetBlock(dl')
    /\ links' = AfterBlocks(dl')
    /\ UNCHANGED <<dbVars, connVars, codecVars, mbVars, bootVars, hashVars, readVars, branches, got>>

\* a failure to create a file that removes the files written before it
OpenFailedCleans ==
    /\ dl.pc = "open_file"
    /\ dl' = [dl EXCEPT !.pc = "failed", !.result = Err(<<"IO">>)]
    /\ out' = <<>>
    /\ links' = AfterStep(dl', links)
    /\ UNCHANGED <<dbVars, connVars, codecVars, mbVars, bootVars, hashVars, readVars, branches, got, reqs>>

\* State::download: OpenOptions::create_new fails
OpenFailed ==
    /\ dl.pc = "open_file"
    /\ dl' = [dl EXCEPT !.pc = "failed", !.result = Err(<<"IO">>)]
    /\ links' = AfterStep(dl', links)
    /\ UNCHANGED <<dbVars, connVars, codecVars, mbVars, bootVars, hashVars, readVars, branches, out, got, reqs>>

\* a comparison that lets every block through
BlockAcceptedAlways(bytes, block_hash_val) == TRUE

\* State::download: block_hash_calc == block_hash_val
BlockAccepted(bytes, block_hash_val) == hash_block(bytes) = block_hash_val

\* State::download: the GetBlock is answered by a Block; for_each writes it
\* if its hash is the expected one
BlockArrived(bytes) ==
    /\ dl.pc = "get_block"
    /\ links[dl.winner].actor = "running"
    /\ got' = Append(got, block(DlHash, dl.file_no, dl.block_no, bytes))
    /\ IF BlockAccepted(bytes, CurrentMap.blocks[dl.block_no + 1])
       THEN /\ out' = [out EXCEPT ![Len(out)].blocks = Append(@, bytes)]
            /\ dl' = IF dl.block_no + 1 < Len(CurrentMap.blocks)
                     THEN [dl EXCEPT !.block_no = dl.block_no + 1]
                     ELSE AfterFile
       ELSE /\ out' = out
            /\ dl' = [dl EXCEPT !.pc = "failed",
                        !.result = Err(InvalidBlockHash(hash_block(bytes)))]
    /\ reqs' = SendGetBlock(dl')
    /\ links' = AfterBlocks(dl')
    /\ UNCHANGED <<dbVars, connVars, codecVars, mbVars, bootVars, hashVars, readVars, branches>>

\* State::download: the GetBlock fails, its connection closed by the BYE of
\* the peer, or times out
BlockFailed(e) ==
    /\ dl.pc = "get_block"
    /\ links[dl.winner].actor = "running"
    /\ dl' = [dl EXCEPT !.pc = "failed", !.result = Err(e)]
    /\ links' = AfterStep(dl',
          IF e = <<"Timeout">> THEN links
          ELSE [links EXCEPT ![dl.winner].actor = "closing"])
    /\ UNCHANGED <<dbVars, connVars, codecVars, mbVars, bootVars, hashVars, readVars, branches, out, got, reqs>>

NextDl ==
    \/ \E p \in Peers : Connected(p)
    \/ \E p \in Peers : ConnectFailed(p)
    \/ \E p \in Peers : HelloSent(p)
    \/ \E p \in Peers : HelloFailed(p)
    \/ \E p \in Peers : PeerHello(p)
    \/ \E p \in Peers : \E fs \in {Some(f) : f \in ReplyFiles} \cup {None} :
          AskReplied(p, fs)
    \/ \E p \in Peers : \E e \in BranchErrors : AskFailed(p, e)
    \/ \E p \in Peers : HandshakeTimedOut(p)
    \/ \E p \in Peers : LinkByeTimer(p)
    \/ \E p \in Peers : LinkStopTimer(p)
    \/ SelectOk
    \/ OpenFile
    \/ OpenFailed
    \/ \E bytes \in Payloads : BlockArrived(bytes)
    \/ \E e \in BlockErrors : BlockFailed(e)

SpecDl == Init /\ [][NextDl]_vars

\* the task of find_peer is woken when a future is ready, so select_ok is
\* polled again
SpecDlFair == SpecDl /\ WF_vars(SelectOk)

\* the blocks received so far for file f, block k (numbered from 0)
GotFor(f, k) == {b \in Range(got) : b.file_nr = f /\ b.block_nr = k}

\* C1: a download is done only if for every file and block index of the
\* accepted FileMaps a BLOCK was received whose payload hashes to the
\* expected block hash, and the files written hold exactly those payloads in
\* order; a received block whose hash differs fails the download with
\* InvalidBlockHash of the hash computed, and no payload that is ever in a
\* destination file differs in hash from the block it stands for.
C1_DownloadIntegrity ==
    /\ dl.pc = "done" =>
          /\ Len(out) = Len(dl.files)
          /\ \A f \in 1..Len(dl.files) :
                /\ Len(out[f].blocks) = Len(dl.files[f].blocks)
                /\ \A k \in 1..Len(dl.files[f].blocks) :
                      \E b \in GotFor(f - 1, k - 1) :
                          /\ hash_block(b.bytes) = dl.files[f].blocks[k]
                          /\ out[f].blocks[k] = b.bytes
    /\ \A b \in Range(got) :
          hash_block(b.bytes) # dl.files[b.file_nr + 1].blocks[b.block_nr + 1] =>
              /\ dl.pc = "failed"
              /\ dl.result = Err(InvalidBlockHash(hash_block(b.bytes)))
    /\ \A f \in 1..Len(out) : \A k \in 1..Len(out[f].blocks) :
          hash_block(out[f].blocks[k]) = dl.files[f].blocks[k]

\* a block with a wrong hash arrived after a good one was written
C1_Witness ==
    /\ dl.pc = "failed"
    /\ Len(got) = 2
    /\ hash_block(got[2].bytes) # dl.files[got[2].file_nr + 1].blocks[got[2].block_nr + 1]
    /\ Len(out[1].blocks) = 1

\* the peers whose ASK_REPLY carried Some(files)
AnsweredSome == {p \in Peers : branches[p].reply # None /\ branches[p].reply[1] = "Ok"}

\* the race stands as its futures say
RaceSound ==
    /\ AnsweredSome # {} => dl.pc # "failed" \/ dl.winner \in AnsweredSome
    /\ dl.pc # "find_peer" /\ AnsweredSome # {} =>
          /\ dl.winner \in AnsweredSome
          /\ branches[dl.winner].state = "won"
          /\ dl.files = branches[dl.winner].reply[2]
    /\ dl.pc = "find_peer" => dl.winner = 0 /\ dl.result = None
    /\ (dl.pc = "failed" /\ dl.winner = 0) =>
          /\ AnsweredSome = {}
          /\ \A p \in Peers : branches[p].state = "removed"

\* C2: whenever a peer has answered the ASK with Some(files) the race
\* succeeds with such a peer: it never fails, it ends, and the download goes
\* on with the files of that peer's reply, also when other branches ended
\* with a None reply, a connect error or a handshake error before.
C2_RaceTakesSomePeer ==
    /\ []RaceSound
    /\ (AnsweredSome # {}) ~> (dl.winner \in AnsweredSome)

\* the second peer won although the first had answered None before
C2_Witness ==
    /\ dl.winner = 2
    /\ branches[1].state = "removed"
    /\ branches[1].reply = Err(ResourceNotFound(DlHash))
    /\ dl.pc = "open_file"

\* C14: when every branch of the race has failed, by a connect error, a
\* handshake error or an ASK_REPLY without files, the download fails with
\* ResourceNotFound of the requested hash.
C14_AllFailNotFound ==
    (dl.pc = "failed" /\ dl.winner = 0) =>
        dl.result = Err(ResourceNotFound(DlHash))

\* the GetBlock keys of file number f with n blocks, in block order
KeysOfFile(f, n) == [k \in 1..n |-> GetBlock(DlHash, f, k - 1)]

\* the GetBlock keys of the files fs, numbered from f, in file order
RECURSIVE KeysFrom(_, _)
KeysFrom(fs, f) ==
    IF fs = <<>> THEN <<>>
    ELSE KeysOfFile(f, Len(Head(fs).blocks)) \o KeysFrom(Tail(fs), f + 1)

\* C15: the GET_BLOCK requests sent are a prefix of the (file_nr, block_nr)
\* keys of the accepted reply in increasing order; at most one of them is
\* without its BLOCK, each BLOCK answers the request of its rank, and a
\* request is sent only when the BLOCK of the one before it was received and
\* had the expected hash; files are created in reply order and hold the
\* payloads received in block order; a download that is done has sent
\* every request and received every BLOCK.
C15_OneAtATime ==
    /\ Len(reqs) <= Len(KeysFrom(dl.files, 0))
    /\ reqs = SubSeq(KeysFrom(dl.files, 0), 1, Len(reqs))
    /\ Len(reqs) - Len(got) \in {0, 1}
    /\ \A i \in 1..Len(got) : KeyOf(got[i]) = reqs[i]
    /\ \A i \in 2..Len(reqs) :
          hash_block(got[i - 1].bytes) =
              dl.files[reqs[i - 1].file_nr + 1].blocks[reqs[i - 1].block_nr + 1]
    /\ \A f \in 1..Len(out) :
          /\ out[f].path = dl.files[f].file_name
          /\ \A k \in 1..Len(out[f].blocks) :
                \E i \in 1..Len(got) :
                    /\ reqs[i] = GetBlock(DlHash, f - 1, k - 1)
                    /\ got[i].bytes = out[f].blocks[k]
    /\ dl.pc = "done" =>
          reqs = KeysFrom(dl.files, 0) /\ Len(got) = Len(reqs)

\* two files were downloaded with three requests, the last file having two
\* blocks
C15_Witness ==
    /\ dl.pc = "done"
    /\ Len(out) = 2
    /\ reqs = <<GetBlock(DlHash, 0, 0), GetBlock(DlHash, 1, 0),
                GetBlock(DlHash, 1, 1)>>
    /\ Len(out[2].blocks) = 2

\* the download failed after the race was won
FailedAfterRace == dl.pc = "failed" /\ dl.winner # 0

\* C16: the step in which a download fails after the race (a block of
\* another hash, a GetBlock that times out or loses its connection, a file
\* that cannot be created) sends no GET_BLOCK, moves no branch of the race
\* and leaves the files written as they are; the download then holds an
\* error, the connections of the other peers stay dropped, and nothing is
\* sent, connected or written from then on.
C16_FailureStops ==
    /\ [](FailedAfterRace =>
            /\ dl.result # None /\ dl.result[1] = "Err"
            /\ \A p \in Peers \ {dl.winner} :
                  branches[p].state \in {"dropped", "removed"}
            /\ Len(reqs) - Len(got) \in {0, 1})
    /\ [][/\ (dl.pc # "failed" /\ dl.winner # 0 /\ dl'.pc = "failed") =>
                /\ reqs' = reqs
                /\ out' = out
                /\ branches' = branches
          /\ dl.pc = "failed" => UNCHANGED <<dl, reqs, out, branches>>]_vars

\* the second GetBlock of a file timed out after its first block was written
C16_Witness ==
    /\ FailedAfterRace
    /\ dl.result = Err(<<"Timeout">>)
    /\ Len(reqs) = 2
    /\ Len(got) = 1
    /\ Len(out) = 1
    /\ Len(out[1].blocks) = 1

\* the ConnectionRef of peer p is dropped in this step
RefDropped(p) == links[p].ref = "held" /\ links'[p].ref = "dropped"

\* the step in which select_ok answers with the connection of a peer
RaceDecided == dl.pc = "find_peer" /\ dl'.winner # 0

DroppedWithoutBye ==
    \E p \in Peers : links[p].ref = "dropped" /\ links[p].byes = 0

\* what the runtime and the timers of the code guarantee, whatever the peers
\* do: a TCP connect ends, the local HELLO is sent or fails, an armed timer
\* fires, a ready future wakes find_peer, the destination file is opened or
\* not, and a GetBlock ends with a BLOCK, an error or its 300 s timeout.
\* Nothing is assumed of the peer: not its HELLO, not its answer to an ASK.
DlFairness ==
    /\ \A p \in Peers : WF_vars(Connected(p) \/ ConnectFailed(p))
    /\ \A p \in Peers : WF_vars(HelloSent(p) \/ HelloFailed(p))
    /\ \A p \in Peers : WF_vars(HandshakeTimedOut(p))
    /\ \A p \in Peers : WF_vars(LinkByeTimer(p))
    /\ \A p \in Peers : WF_vars(LinkStopTimer(p))
    /\ WF_vars(SelectOk)
    /\ WF_vars(OpenFile \/ OpenFailed)
    /\ WF_vars((\E bytes \in Payloads : BlockArrived(bytes))
               \/ (\E e \in BlockErrors : BlockFailed(e)))

SpecDlLive == SpecDl /\ DlFairness

DownloadReturned == dl.pc \in {"done", "failed"}

\* the Ask of branch p is in the mailbox of a connection whose peer completed
\* the handshake: no timer is armed that would end it
AskUnanswered(p) ==
    /\ branches[p].state = "asking"
    /\ links[p].actor = "running"
    /\ links[p].hello

\* C36: every download request eventually returns, with the written files
\* or with an error, whatever the peers do.
C36_DownloadReturns == <>DownloadReturned

\* a download returns unless, from some point on, a peer that sent its HELLO
\* leaves the ASK unanswered
ReturnsUnlessAskUnanswered ==
    <>DownloadReturned \/ \E p \in Peers : <>[]AskUnanswered(p)

\* find_peer is pending, and every branch has failed or waits for an answer
\* to its ASK that no timer replaces
FindPeerStuck ==
    /\ dl.pc = "find_peer"
    /\ \E p \in Peers : AskUnanswered(p)
    /\ \A p \in Peers :
          \/ AskUnanswered(p)
          \/ branches[p].state \notin {"connecting", "handshake", "asking",
                                       "ready"}

\* C37: while a download is in progress (a file is being opened or a block
\* awaited), the ConnectionRef of the chosen connection is held and no BYE
\* was written on it, also after a file of several is complete; the BYE of
\* the driver is written once, when the download is done or has failed.
C37_NoByeWhileDownloading ==
    dl.winner # 0 =>
        /\ dl.pc \in {"open_file", "get_block"} =>
              /\ links[dl.winner].ref = "held"
              /\ links[dl.winner].byes = 0
        /\ links[dl.winner].byes <= 1
        /\ links[dl.winner].byes = 1 => dl.pc \in {"done", "failed"}

\* the first file of two is written and a block of the second file is
\* awaited on a connection without BYE
C37_Witness ==
    /\ dl.pc = "get_block"
    /\ Len(dl.files) = 2
    /\ dl.file_no = 1
    /\ Len(out) >= 1
    /\ links[dl.winner].actor = "running"
    /\ links[dl.winner].ref = "held"
    /\ links[dl.winner].byes = 0

\* the download of two files is done and the BYE is written
ByeAfterLastFile ==
    /\ dl.pc = "done"
    /\ Len(dl.files) = 2
    /\ links[dl.winner].ref = "dropped"
    /\ links[dl.winner].byes = 1

(***************************************************************************)
(* The catalog on its own: every message of the DatabaseManager, the       *)
(* connection idle.                                                        *)
(***************************************************************************)
DbRegister ==
    \E msg \in RegisterMsgs :
        LET map_hash == hash_bundles(FileMapsOf(msg.files))
        IN  /\ RegisterHash(msg)
            /\ dbOp' = Handled("register", map_hash, Some(msg), Some(map_hash),
                               GetHash(map_hash))
            /\ UNCHANGED <<now, connVars, dlVars, codecVars, mbVars, bootVars, hashVars, readVars>>

DbGet ==
    \E hash \in Hashes :
        /\ dbOp' = Handled("get", hash, None, GetHash(hash), None)
        /\ UNCHANGED <<files, now, connVars, dlVars, codecVars, mbVars, bootVars, hashVars, readVars>>

DbRemove ==
    \E hash \in Hashes :
        /\ RemoveHash(hash)
        /\ dbOp' = Handled("remove", hash, None, GetHash(hash), None)
        /\ UNCHANGED <<now, connVars, dlVars, codecVars, mbVars, bootVars, hashVars, readVars>>

DbList ==
    /\ dbOp' = Handled("list", 0, None, List, None)
    /\ UNCHANGED <<files, now, connVars, dlVars, codecVars, mbVars, bootVars, hashVars, readVars>>

DbGc ==
    /\ Gc
    /\ dbOp' = Handled("gc", 0, None, expired_file_hashes(now), None)
    /\ UNCHANGED <<now, connVars, dlVars, codecVars, mbVars, bootVars, hashVars, readVars>>

\* the wall clock advances
DbTick ==
    /\ now < MaxTime
    /\ now' = now + 1
    /\ dbOp' = Handled("tick", 0, None, None, None)
    /\ UNCHANGED <<files, connVars, dlVars, codecVars, mbVars, bootVars, hashVars, readVars>>

NextDb ==
    \/ DbRegister
    \/ DbGet
    \/ DbRemove
    \/ DbList
    \/ DbGc
    \/ DbTick

\* an empty catalog, as database_manager starts it
InitEmpty ==
    InitDb /\ InitConn /\ hello_fut = "unpolled" /\ InitDl /\ InitCodec /\ InitMb
    /\ InitBooted
    /\ InitHash
    /\ InitRead

SpecDb == InitEmpty /\ [][NextDb]_vars


(***************************************************************************)
(* Properties of the catalog.                                              *)
(***************************************************************************)
\* the later of two deadlines, an absent deadline being the latest
LaterValid(a, b) ==
    IF a = None \/ b = None THEN None
    ELSE IF Unwrap(a) >= Unwrap(b) THEN a ELSE b

\* the RegisterHash message handled last
LastMsg == Unwrap(dbOp.msg)

\* the last message was a RegisterHash for a hash the catalog already held
ReRegistered == dbOp.op = "register" /\ IsSome(dbOp.prev)

\* C7: after register with valid_to T1 then register of the same hash with
\* valid_to T2, the stored valid_to is None if T1 or T2 is None and
\* max(T1, T2) otherwise: a first registration stores its own deadline, and
\* every re-registration stores the later of the stored and the new one.
C7_MergeExtend ==
    dbOp.op = "register" =>
        /\ dbOp.hash \in DOMAIN files
        /\ files[dbOp.hash].desc.valid_to =
              IF IsSome(dbOp.prev)
              THEN LaterValid(Unwrap(dbOp.prev).desc.valid_to, LastMsg.valid_to)
              ELSE LastMsg.valid_to

\* a re-registration with an earlier deadline that did not shorten the entry
C7_Witness ==
    /\ ReRegistered
    /\ IsSome(LastMsg.valid_to)
    /\ IsSome(Unwrap(dbOp.prev).desc.valid_to)
    /\ Unwrap(LastMsg.valid_to) < Unwrap(Unwrap(dbOp.prev).desc.valid_to)
    /\ files[dbOp.hash].desc.valid_to = Unwrap(dbOp.prev).desc.valid_to

\* both deadlines present and equal
Tie ==
    /\ ReRegistered
    /\ IsSome(LastMsg.valid_to)
    /\ Unwrap(dbOp.prev).desc.valid_to = LastMsg.valid_to

\* C8 as stated: on a tie of two present deadlines the stored FileDesc is
\* the one of the earlier registration, unchanged.
C8_TieKeepsExisting ==
    Tie => files[dbOp.hash].desc = Unwrap(dbOp.prev).desc

\* C8 amended: on a tie of two present deadlines the stored FileDesc is
\* the one of the later registration (its paths and inline data); only the
\* reporter of the earlier registration is kept.
C8_TieTakesNew ==
    Tie =>
        /\ files[dbOp.hash].desc =
              FileDesc(dbOp.hash, LastMsg.files, LastMsg.inline_data,
                       LastMsg.valid_to)
        /\ files[dbOp.hash].reporter = Unwrap(dbOp.prev).reporter

\* a tie between two registrations that differ in paths, inline data and
\* reporter
C8_Witness ==
    /\ Tie
    /\ Unwrap(dbOp.prev).desc.files # LastMsg.files
    /\ Unwrap(dbOp.prev).desc.inline_data # LastMsg.inline_data
    /\ Unwrap(dbOp.prev).reporter # LastMsg.reporter

\* C9: a GC sweep at time now removes exactly the entries whose valid_to is
\* present and strictly less than now, keeping those with no deadline or a
\* deadline at or after now unchanged; no step other than a sweep or an
\* explicit remove takes an entry out of the catalog.
C9_GcSweep ==
    [][/\ dbOp'.op = "gc" =>
            /\ DOMAIN files' =
                  {h \in DOMAIN files :
                      ~(IsSome(files[h].desc.valid_to)
                        /\ Unwrap(files[h].desc.valid_to) < now)}
            /\ \A h \in DOMAIN files' : files'[h] = files[h]
       /\ dbOp'.op \notin {"gc", "remove"} => DOMAIN files \subseteq DOMAIN files'
      ]_vars

\* a sweep that removed an entry and kept one whose deadline is exactly now
C9_Witness ==
    /\ dbOp.op = "gc"
    /\ dbOp.reply # {}
    /\ \E h \in DOMAIN files : files[h].desc.valid_to = Some(now)

\* C20: a register stores, under the hash it returns, a FileDesc with that
\* map_hash and the FileMaps registered; an entry stays in the catalog with
\* its map_hash and its FileMaps through every step but a remove of its
\* hash and a sweep at a time after its deadline; get replies with the entry
\* of the hash, or with absence when the catalog has none; get and list
\* leave the catalog as it is.
C20_GetAfterRegister ==
    [][/\ dbOp'.op = "register" =>
            /\ dbOp'.reply = Some(dbOp'.hash)
            /\ dbOp'.hash \in DOMAIN files'
            /\ files'[dbOp'.hash].desc.map_hash = dbOp'.hash
            /\ FileMapsOf(files'[dbOp'.hash].desc.files) =
                  FileMapsOf(Unwrap(dbOp'.msg).files)
       /\ \A h \in DOMAIN files :
            \/ /\ h \in DOMAIN files'
               /\ files'[h].desc.map_hash = h
               /\ FileMapsOf(files'[h].desc.files) = FileMapsOf(files[h].desc.files)
            \/ dbOp'.op = "remove" /\ dbOp'.hash = h
            \/ /\ dbOp'.op = "gc"
               /\ IsSome(files[h].desc.valid_to)
               /\ Unwrap(files[h].desc.valid_to) < now
       /\ dbOp'.op = "get" =>
            /\ files' = files
            /\ dbOp'.reply = IF dbOp'.hash \in DOMAIN files
                             THEN Some(files[dbOp'.hash]) ELSE None
       /\ dbOp'.op = "list" =>
            /\ files' = files
            /\ dbOp'.reply = {files[h].desc : h \in DOMAIN files}]_vars

\* a get of the one hash in the catalog, registered earlier, answered after
\* the clock moved on
C20_Witness ==
    /\ dbOp.op = "get"
    /\ dbOp.reply # None
    /\ Unwrap(dbOp.reply).desc.map_hash = dbOp.hash
    /\ FileMapsOf(Unwrap(dbOp.reply).desc.files) = <<FM_b>>
    /\ DOMAIN files = {dbOp.hash}
    /\ now > 0

(***************************************************************************)
(* The catalog behind its mailbox: the Connections, the control plane and  *)
(* the GC timer send it messages, its one thread handles them.             *)
(***************************************************************************)
\* messages sent to the DatabaseManager in one run
MaxMsgs == 3

\* who holds an Addr<DatabaseManager> or a Recipient<Gc>
Callers == {"conn1", "conn2", "ctl", "gc"}

\* the registrations the control plane sends
UploadMsgs ==
    {[files |-> FilesB1, valid_to |-> Some(1), inline_data |-> BytesB1,
      reporter |-> "r1"],
     [files |-> FilesA, valid_to |-> None, inline_data |-> <<>>,
      reporter |-> "r2"]}

\* a message for the DatabaseManager
Request(op, hash, msg) == [op |-> op, hash |-> hash, msg |-> msg]

\* the messages each caller sends: GetHash and GetId by a Connection, what
\* the commands of the control plane send, Gc by the GcWorker
RequestsOf(c) ==
    CASE c \in {"conn1", "conn2"} ->
            {Request("get", h, None) : h \in Hashes}
            \cup {Request("id", 0, None)}
      [] c = "ctl" ->
            {Request("register", hash_bundles(FileMapsOf(m.files)), Some(m)) :
                m \in UploadMsgs}
            \cup {Request("remove", HashB, None), Request("list", 0, None)}
      [] c = "gc" -> {Request("gc", 0, None)}

\* the messages c has sent so far
SentBy(c) ==
    Len(SelectSeq(served, LAMBDA e : e.from = c))
    + Len(SelectSeq(mailbox, LAMBDA e : e.from = c))

\* Addr::send, Recipient::do_send: the message joins the queue
MbSend(c, r) ==
    /\ Len(mailbox) + Len(served) < MaxMsgs
    /\ mailbox' = Append(mailbox, [from |-> c, no |-> SentBy(c) + 1, req |-> r])
    /\ UNCHANGED <<dbVars, connVars, dlVars, codecVars, bootVars, hashVars, readVars, served>>

\* a thread that takes any message of the queue
DeliverableAny(q) == DOMAIN q

\* the one thread of the SyncArbiter takes the oldest message of the queue
Deliverable(q) == IF q = <<>> THEN {} ELSE {1}

\* what the handler of request r replies (for Gc, which replies nothing,
\* the hashes it removes)
ReplyOf(r) ==
    CASE r.op = "register" -> Some(r.hash)
      [] r.op = "get" -> GetHash(r.hash)
      [] r.op = "remove" -> GetHash(r.hash)
      [] r.op = "list" -> List
      [] r.op = "gc" -> expired_file_hashes(now)
      [] r.op = "id" -> Some(NodeId)

\* the thread of the DatabaseManager runs the handler of one message
MbHandle ==
    \E i \in Deliverable(mailbox) :
        /\ CASE mailbox[i].req.op = "register" ->
                    RegisterHash(Unwrap(mailbox[i].req.msg))
             [] mailbox[i].req.op = "remove" -> RemoveHash(mailbox[i].req.hash)
             [] mailbox[i].req.op = "gc" -> Gc
             [] OTHER -> files' = files
        /\ dbOp' = Handled(mailbox[i].req.op, mailbox[i].req.hash,
                           mailbox[i].req.msg, ReplyOf(mailbox[i].req),
                           IF mailbox[i].req.op = "register"
                           THEN GetHash(mailbox[i].req.hash) ELSE None)
        /\ mailbox' = Without(mailbox, i)
        /\ served' = Append(served,
              [from |-> mailbox[i].from, no |-> mailbox[i].no,
               req |-> mailbox[i].req, reply |-> ReplyOf(mailbox[i].req),
               pre |-> files, post |-> files', at |-> now])
        /\ UNCHANGED <<now, connVars, dlVars, codecVars, bootVars, hashVars, readVars>>

NextMb ==
    \/ \E c \in Callers : \E r \in RequestsOf(c) : MbSend(c, r)
    \/ MbHandle
    \/ DbTick

SpecMb == InitEmpty /\ [][NextMb]_vars

\* the registrations handled before the k-th message
RegisteredBefore(k) ==
    {served[j].req.hash : j \in {i \in 1..(k - 1) : served[i].req.op = "register"}}

\* C21: the messages of all callers are handled one at a time in one order:
\* each handler starts from the catalog the handler before it left and the
\* catalog is what the last one left; the messages of one caller are
\* handled in the order it sent them; a get answers from the catalog as the
\* handlers before it left it, a get and a sweep see only entries of
\* registrations whose handler has finished, and get, list and id change
\* nothing.
C21_OneAtATime ==
    /\ files = IF served = <<>> THEN << >> ELSE served[Len(served)].post
    /\ \A k \in DOMAIN served :
          /\ served[k].pre = IF k = 1 THEN << >> ELSE served[k - 1].post
          /\ DOMAIN served[k].pre \subseteq RegisteredBefore(k)
          /\ served[k].req.op \in {"get", "list", "id"} =>
                served[k].post = served[k].pre
          /\ served[k].req.op = "get" =>
                served[k].reply =
                    IF served[k].req.hash \in DOMAIN served[k].pre
                    THEN Some(served[k].pre[served[k].req.hash]) ELSE None
          /\ served[k].req.op = "gc" =>
                /\ served[k].reply \subseteq RegisteredBefore(k)
                /\ DOMAIN served[k].post = DOMAIN served[k].pre \ served[k].reply
          /\ served[k].req.op = "register" =>
                served[k].req.hash \in DOMAIN served[k].post
    /\ \A j, k \in DOMAIN served :
          (j < k /\ served[j].from = served[k].from) =>
              served[j].no < served[k].no
    /\ \A j \in DOMAIN served : \A k \in DOMAIN mailbox :
          served[j].from = mailbox[k].from => served[j].no < mailbox[k].no
    /\ \A j, k \in DOMAIN mailbox :
          (j < k /\ mailbox[j].from = mailbox[k].from) =>
              mailbox[j].no < mailbox[k].no

\* a registration of the control plane, then two gets of one Connection
\* handled in the order sent, the first one answered with the entry
C21_Witness ==
    /\ Len(served) = 3
    /\ served[1].req.op = "register"
    /\ served[1].from = "ctl"
    /\ served[2].from = "conn1"
    /\ served[3].from = "conn1"
    /\ served[2].req = Request("get", served[1].req.hash, None)
    /\ IsSome(served[2].reply)
    /\ served[3].req.op = "get"
    /\ served[3].reply = None

(***************************************************************************)
(* The start of the catalog: started() on a data directory as an earlier   *)
(* run or anything else left it.                                           *)
(***************************************************************************)
\* the ids rand::thread_rng().gen() may return
FreshIds == {33, 34}

\* files a data directory may hold besides its metadata: a stored FileDesc,
\* one that does not decode, and a file of another kind
DirEntries ==
    {[name |-> <<"a", "fhash">>, desc |-> Some(FileDesc(HashA, FilesA, <<>>, None))],
     [name |-> <<"b", "fhash">>, desc |-> None],
     [name |-> <<"notes", "txt">>, desc |-> None]}

\* the metadata file: absent, of this format, of another format, not JSON,
\* or not to be opened
Metas ==
    {None, Some(Meta(FORMAT_VERSION, 7)), Some(Meta(FORMAT_VERSION + 1, 7)),
     Some([kind |-> "garbage", format |-> 0, id |-> 0]),
     Some([kind |-> "unreadable", format |-> 0, id |-> 0])}

Dirs ==
    {Dir(m, es, l, w) :
        m \in Metas, es \in SUBSET DirEntries, l \in BOOLEAN, w \in BOOLEAN}

\* a panic of unwrap() in the thread of the DatabaseManager: the thread
\* dies, or the process with it when the build aborts on panic
Panics(state) == {System(state, "panicked"), System("aborted", "panicked")}

\* started(), the branch of the errors it recovers from:
\* self.clear_dir().unwrap(); self.init().unwrap()
Recovered(fresh) ==
    init(Loaded("", clear_dir(load(db_dir).dir), load(db_dir).id,
                load(db_dir).files), fresh)

\* Actor::started for DatabaseManager
DbStarted(fresh) ==
    /\ system.db = "starting"
    /\ IF load(db_dir).err \in Recoverable
       THEN /\ db_dir' = Recovered(fresh).dir
            /\ db_id' = Recovered(fresh).id
            /\ files' = Recovered(fresh).files
            /\ IF Recovered(fresh).err = ""
               THEN system' = System("running", "started")
               ELSE system' \in Panics("running")
       ELSE /\ db_dir' = load(db_dir).dir
            /\ db_id' = load(db_dir).id
            /\ files' = load(db_dir).files
            /\ IF load(db_dir).err = ""
               THEN system' = System("running", "started")
               ELSE IF load(db_dir).id = None
               THEN system' \in Panics("stopping")
               ELSE system' = System("stopping", "started")
    /\ dbOp' = Handled("started", 0, None, None, None)
    /\ UNCHANGED <<now, connVars, dlVars, codecVars, mbVars, hashVars, readVars>>

\* Handler<GetId>: the id, or ServiceFail (None) when it is unset
BootGetId ==
    /\ system.db = "started"
    /\ system.state \in {"running", "stopping"}
    /\ dbOp' = Handled("id", 0, None, db_id, None)
    /\ UNCHANGED <<files, now, connVars, dlVars, codecVars, mbVars, bootVars, hashVars, readVars>>

\* System::stop() takes effect: the event loop ends and main returns
SystemStops ==
    /\ system.state = "stopping"
    /\ system' = [system EXCEPT !.state = "stopped"]
    /\ UNCHANGED <<dbVars, connVars, dlVars, codecVars, mbVars, hashVars, readVars, db_dir, db_id>>

NextBoot ==
    \/ \E fresh \in FreshIds : DbStarted(fresh)
    \/ BootGetId
    \/ SystemStops

\* SyncArbiter::start has built the DatabaseManager, started() did not run
InitBoot ==
    /\ InitDb
    /\ InitConn
    /\ hello_fut = "unpolled"
    /\ InitDl
    /\ InitCodec
    /\ InitMb
    /\ db_dir \in Dirs
    /\ db_id = None
    /\ system = System("running", "starting")
    /\ InitHash
    /\ InitRead

SpecBoot == InitBoot /\ [][NextBoot]_vars

\* the metadata of directory d is missing, of another format or not JSON
MetaUnusable(d) ==
    \/ d.meta = None
    \/ Unwrap(d.meta).kind = "garbage"
    \/ Unwrap(d.meta).kind = "json" /\ Unwrap(d.meta).format # 1

\* C23 as claimed: started() on a directory whose metadata is missing, of a
\* format other than 1 or not JSON leaves the directory wiped but for new
\* metadata of format 1 with a fresh node id, that id set and the catalog
\* empty; every other failure of the start ends the process; the catalog
\* never serves with its node id unset.
C23_StartupRecovery ==
    [][(system.db = "starting" /\ system'.db # "starting") =>
          /\ IF MetaUnusable(db_dir)
             THEN \/ /\ db_dir'.entries = {}
                     /\ IsSome(db_dir'.meta)
                     /\ Unwrap(db_dir'.meta).kind = "json"
                     /\ Unwrap(db_dir'.meta).format = 1
                     /\ Unwrap(db_dir'.meta).id \in FreshIds
                     /\ db_id' = Some(Unwrap(db_dir'.meta).id)
                     /\ files' = << >>
                     /\ system' = System("running", "started")
                  \/ /\ ~db_dir.writable
                     /\ system'.state \in {"stopping", "aborted"}
             ELSE \/ /\ Unwrap(db_dir.meta).kind = "json"
                     /\ db_id' = Some(Unwrap(db_dir.meta).id)
                     /\ system' = System("running", "started")
                  \/ system'.state \in {"stopping", "aborted"}
          /\ (system'.db = "started" /\ system'.state = "running") =>
                IsSome(db_id')]_vars

(***************************************************************************)
(* hash_file on its own: files of sizes around the block size, read in     *)
(* full and in short reads, unchanged, grown or cut since metadata().      *)
(***************************************************************************)
\* reads of one run that return less than asked for
MaxShortReads == 2

\* file sizes metadata() may report
FileSizes ==
    {0, 1, BLOCK_SIZE - 1, BLOCK_SIZE, BLOCK_SIZE + 1, 2 * BLOCK_SIZE,
     2 * BLOCK_SIZE + 1}

\* the lengths a short read may return
ShortLens == {1, BLOCK_SIZE \div 2}

\* the position of the file: the bytes read so far
Pos(h) == h.file_size - h.rem_file_bytes

\* to_read
to_read(h) == Min(BLOCK_SIZE, h.rem_block_bytes)

\* what file.read(&mut buf[..to_read]) may return
ReadLens(h) ==
    {Min(to_read(h), h.on_disk - Pos(h))}
    \cup {n \in ShortLens :
            h.short < MaxShortReads /\ n < Min(to_read(h), h.on_disk - Pos(h))}

\* a block that ends with the first read
BlockEndsAfterRead(h) ==
    h.rem_block_bytes < BLOCK_SIZE \/ h.rem_file_bytes = 0

\* the inner loop is left: rem_block_bytes > 0 && rem_file_bytes > 0 fails
BlockEnds(h) == h.rem_block_bytes = 0 \/ h.rem_file_bytes = 0

\* while rem_file_bytes > 0: a new block and a new digest
HashBlockStart ==
    /\ hf.pc = "outer"
    /\ hf.rem_file_bytes > 0
    /\ hf' = [hf EXCEPT !.pc = "inner", !.rem_block_bytes = BLOCK_SIZE]
    /\ UNCHANGED <<dbVars, connVars, dlVars, codecVars, mbVars, bootVars, readVars>>

\* one file.read of the inner loop; a read of more bytes than file_size
\* leaves makes rem_file_bytes -= len overflow, which panics or wraps, and
\* after a wrap the loop runs into the end of the file
HashRead(len) ==
    /\ hf.pc = "inner"
    /\ ~BlockEnds(hf)
    /\ len \in ReadLens(hf)
    /\ IF len = 0
       THEN hf' = [hf EXCEPT !.pc = "done", !.result = "Unexpected EOF"]
       ELSE IF len > hf.rem_file_bytes
       THEN \E r \in {"panic", "Unexpected EOF"} :
                hf' = [hf EXCEPT !.pc = "done", !.result = r]
       ELSE hf' = [hf EXCEPT
                !.rem_block_bytes = @ - len,
                !.rem_file_bytes = @ - len,
                !.short = IF len < Min(to_read(hf), hf.on_disk - Pos(hf))
                          THEN @ + 1 ELSE @]
    /\ UNCHANGED <<dbVars, connVars, dlVars, codecVars, mbVars, bootVars, readVars>>

\* blocks.push(hash) of the digest of the bytes read since the block began
HashBlockEnd ==
    /\ hf.pc = "inner"
    /\ BlockEnds(hf)
    /\ hf' = [hf EXCEPT !.pc = "outer",
                        !.blocks = Append(@, BLOCK_SIZE - hf.rem_block_bytes)]
    /\ UNCHANGED <<dbVars, connVars, dlVars, codecVars, mbVars, bootVars, readVars>>

\* Ok(FileMap { file_name, file_size, blocks })
HashReturn ==
    /\ hf.pc = "outer"
    /\ hf.rem_file_bytes = 0
    /\ hf' = [hf EXCEPT !.pc = "done", !.result = "Ok"]
    /\ UNCHANGED <<dbVars, connVars, dlVars, codecVars, mbVars, bootVars, readVars>>

NextHash ==
    \/ HashBlockStart
    \/ \E len \in ReadLens(hf) : HashRead(len)
    \/ HashBlockEnd
    \/ HashReturn

\* hash_file called on a file that was not changed, grew by a byte or lost
\* a byte after metadata()
InitHashFile ==
    /\ InitDb
    /\ InitConn
    /\ hello_fut = "unpolled"
    /\ InitDl
    /\ InitCodec
    /\ InitMb
    /\ InitBooted
    /\ \E s \in FileSizes : \E d \in {s, s + 1, s - 1} :
          d >= 0 /\ hf = hash_file(s, d)
    /\ InitRead

SpecHash == InitHashFile /\ [][NextHash]_vars

RECURSIVE Sum(_)
Sum(s) == IF s = <<>> THEN 0 ELSE Head(s) + Sum(Tail(s))

\* C24: when hash_file has returned a FileMap for a file of file_size bytes,
\* it has as many block hashes as num_of_blocks, the rounded-up quotient of
\* file_size by BLOCK_SIZE; every block but the last covers BLOCK_SIZE
\* bytes and the last one the rest, between 1 and BLOCK_SIZE bytes; the
\* lengths sum to file_size; a file of size 0 has no blocks.
C24_BlockCover ==
    (hf.pc = "done" /\ hf.result = "Ok") =>
        /\ Len(hf.blocks) * BLOCK_SIZE >= hf.file_size
        /\ (Len(hf.blocks) - 1) * BLOCK_SIZE < hf.file_size \/ hf.file_size = 0
        /\ Len(hf.blocks) = num_of_blocks(hf.file_size)
        /\ \A i \in 1..(Len(hf.blocks) - 1) : hf.blocks[i] = BLOCK_SIZE
        /\ hf.blocks # <<>> =>
              /\ hf.blocks[Len(hf.blocks)]
                    = hf.file_size - (Len(hf.blocks) - 1) * BLOCK_SIZE
              /\ hf.blocks[Len(hf.blocks)] \in 1..BLOCK_SIZE
        /\ Sum(hf.blocks) = hf.file_size
        /\ hf.file_size = 0 => hf.blocks = <<>>

\* a file of two blocks and a byte, hashed through two short reads
C24_Witness ==
    /\ hf.pc = "done"
    /\ hf.result = "Ok"
    /\ hf.file_size = 2 * BLOCK_SIZE + 1
    /\ hf.short = 2
    /\ hf.blocks = <<BLOCK_SIZE, BLOCK_SIZE, 1>>

(***************************************************************************)
(* read_block on its own: a file hashed by hash_file is served block by    *)
(* block, from a file that is as it was, was cut or is gone.               *)
(***************************************************************************)
\* the block numbers a GET_BLOCK may carry
BlockNos == 0..3

\* an offset one block further on
offset_of_next(block_no) == (block_no + 1) * BLOCK_SIZE

\* let offset = block_no as u64 * BLOCK_SIZE as u64
offset_of(block_no) == block_no * BLOCK_SIZE

\* the bytes of the file left after the position of the read
Avail(r) ==
    IF IsSome(r.on_disk) /\ Unwrap(r.on_disk) > r.offset + r.filled
    THEN Unwrap(r.on_disk) - (r.offset + r.filled) ELSE 0

\* what file.read(bytes) may return
BlockReadLens(r) ==
    {Min(r.size - r.filled, Avail(r))}
    \cup {n \in ShortLens :
            r.short < MaxShortReads /\ n < Min(r.size - r.filled, Avail(r))}

\* handle_get_block calls read_block(path, map, get_block.block_nr) for a
\* file hash_file has mapped; the check of the offset, size, open and seek
ReadBlockStart(block_no, on_disk) ==
    /\ hf.pc = "done"
    /\ hf.result = "Ok"
    /\ rb.pc = "idle"
    /\ actor = "Running"
    /\ rb' = LET offset == offset_of(block_no)
                 r == ReadState("loop", hf.file_size, hf.blocks, on_disk,
                                block_no, offset, 0, 0, 0, "")
             IN  IF hf.file_size < offset
                 THEN [r EXCEPT !.pc = "ret", !.result = "invalid offset"]
                 ELSE IF on_disk = None
                 THEN [r EXCEPT !.pc = "ret", !.result = "NotFound"]
                 ELSE [r EXCEPT !.size = Min(hf.file_size - offset, BLOCK_SIZE)]
    /\ UNCHANGED <<dbVars, connVars, dlVars, codecVars, mbVars, bootVars,
                   hashVars>>

\* one file.read of the loop `while bytes.len() > 0`
ReadBlockRead(n) ==
    /\ rb.pc = "loop"
    /\ rb.filled < rb.size
    /\ n \in BlockReadLens(rb)
    /\ IF n = 0
       THEN rb' = [rb EXCEPT !.pc = "ret", !.result = "UnexpectedEof"]
       ELSE rb' = [rb EXCEPT
                !.filled = @ + n,
                !.short = IF n < Min(rb.size - rb.filled, Avail(rb))
                          THEN @ + 1 ELSE @]
    /\ UNCHANGED <<dbVars, connVars, dlVars, codecVars, mbVars, bootVars,
                   hashVars>>

\* Ok(bytes_vec)
ReadBlockReturn ==
    /\ rb.pc = "loop"
    /\ rb.filled = rb.size
    /\ rb' = [rb EXCEPT !.pc = "ret", !.result = "Ok"]
    /\ UNCHANGED <<dbVars, connVars, dlVars, codecVars, mbVars, bootVars,
                   hashVars>>

\* the match of handle_get_block on what read_block returned: a BLOCK with
\* the bytes, given as the offset and the number of bytes read from the
\* file, or ctx.stop()
ServeBlock ==
    /\ rb.pc = "ret"
    /\ rb' = [rb EXCEPT !.pc = "done"]
    /\ connOp' = [op |-> "frame", arg |-> GetBlock(HashA, 0, rb.block_no)]
    /\ IF rb.result = "Ok"
       THEN /\ framed' = Append(framed, block(HashA, 0, rb.block_no,
                                              <<rb.offset, rb.filled>>))
            /\ UNCHANGED <<actor, block_requests, ask_requests, responders,
                           lookups, timers>>
       ELSE /\ stop
            /\ UNCHANGED framed
    /\ UNCHANGED <<dbVars, dlVars, codecVars, mbVars, bootVars, hashVars,
                   peer_id, current_file, framed_closed, events, asked,
                   hello_fut, clock>>

\* the file at path when the block is asked for: as hash_file found it, cut
\* by a byte, cut to the start of the block, or gone
DiskAt(block_no) ==
    {None, Some(hf.file_size)}
    \cup {Some(hf.file_size - 1) : x \in {1} \cap 1..hf.file_size}
    \cup {Some(offset_of(block_no)) : x \in {1} \cap 1..hf.file_size}

NextRead ==
    \/ HashBlockStart
    \/ \E len \in ReadLens(hf) : HashRead(len)
    \/ HashBlockEnd
    \/ HashReturn
    \/ \E block_no \in BlockNos : \E d \in DiskAt(block_no) :
          ReadBlockStart(block_no, d)
    \/ \E n \in BlockReadLens(rb) : ReadBlockRead(n)
    \/ ReadBlockReturn
    \/ ServeBlock

SpecRead == InitHashFile /\ [][NextRead]_vars

\* the byte at which hash_file began block k (from 0) of the file it mapped
HashedFrom(k) == Sum(SubSeq(rb.blocks, 1, k))

\* C32: a GET_BLOCK with block_nr below the number of blocks that is served
\* from the local file is answered with a BLOCK of exactly
\* min(file_size - block_nr * BLOCK_SIZE, BLOCK_SIZE) bytes read from offset
\* block_nr * BLOCK_SIZE, the bytes hash_file hashed for that block; when the
\* file ends before that many bytes are read, no BLOCK is written and the
\* actor stops.
C32_BlockRange ==
    (rb.pc = "done" /\ rb.block_no < Len(rb.blocks)) =>
        /\ framed # <<>> =>
              /\ framed = <<block(HashA, 0, rb.block_no,
                                  <<HashedFrom(rb.block_no),
                                    rb.blocks[rb.block_no + 1]>>)>>
              /\ framed[1].bytes[1] = rb.block_no * BLOCK_SIZE
              /\ framed[1].bytes[2] =
                    IF rb.file_size - rb.block_no * BLOCK_SIZE < BLOCK_SIZE
                    THEN rb.file_size - rb.block_no * BLOCK_SIZE
                    ELSE BLOCK_SIZE
              /\ actor = "Running"
        /\ (\/ rb.on_disk = None
            \/ Unwrap(rb.on_disk)
                  < rb.block_no * BLOCK_SIZE + rb.blocks[rb.block_no + 1]) =>
              /\ framed = <<>>
              /\ actor = "Stopped"

\* the second block of a file of two blocks and a byte, served through two
\* short reads
C32_Witness ==
    /\ rb.pc = "done"
    /\ rb.file_size = 2 * BLOCK_SIZE + 1
    /\ rb.block_no = 1
    /\ rb.short = 2
    /\ framed = <<block(HashA, 0, 1, <<BLOCK_SIZE, BLOCK_SIZE>>)>>

\* a file cut by a byte after it was hashed: no BLOCK for its last block
ServedCutFile ==
    /\ rb.pc = "done"
    /\ rb.on_disk = Some(BLOCK_SIZE)
    /\ rb.file_size = BLOCK_SIZE + 1
    /\ rb.block_no = 1
    /\ rb.result = "UnexpectedEof"
    /\ framed = <<>>
    /\ actor = "Stopped"

(***************************************************************************)
(* State::upload on its own: the files of a request are hashed, the one    *)
(* small file of a request is read whole, the bundle is registered.        *)
(***************************************************************************)
\* entries the catalog holds at most
MaxBundles == 2

\* a limit that lets a file of 200 bytes in
InlineLimitIncl == 200 + 1

\* file_maps[0].0.file_size < 200
InlineLimit == 200

\* the sizes metadata() reports for the files of a request
UploadSizes == {0, 199, 200}

\* a file of a request: its display name, the size hash_file found, and the
\* bytes std::fs::read finds in it afterwards (None when the read fails)
UploadFile(name, size, read) == [name |-> name, size |-> size, read |-> read]

\* the requests (the `files` map of Command::Upload, its entries numbered):
\* one file, as it was hashed, grown or cut by a byte since, or unreadable;
\* or two files
UploadRequests ==
    {<<UploadFile("a", s, r)>> :
        s \in UploadSizes,
        r \in {None} \cup {Some(n) : n \in {0, 198, 199, 200, 201}}}
    \cup {<<UploadFile("a", s, Some(s)), UploadFile("b", t, Some(t))>> :
            s \in UploadSizes, t \in UploadSizes}

\* what hash_file returns for a file of a request, the contents of a file
\* standing for its size
Hashed(f) ==
    <<FileMap(f.name, f.size,
              IF f.size = 0 THEN <<>> ELSE <<hash_block(<<f.size>>)>>),
      f.name>>

\* std::fs::read of a file of a request: as many bytes as it holds by then
ReadWhole(f) == [i \in 1..Unwrap(f.read) |-> 0]

\* the orders files.into_iter() may yield the n entries of the HashMap in
IterOrders(n) ==
    {o \in [1..n -> 1..n] : \A i, j \in 1..n : o[i] = o[j] => i = j}

\* State::upload: hash_file on every file in the order the map yields them,
\* inline_data, valid_to and the RegisterHash it sends; an unreadable file
\* ends it with an error
Upload(req, order, timeout) ==
    LET file_maps == [i \in 1..Len(req) |-> Hashed(req[order[i]])]
        inlined ==
            Len(file_maps) = 1 /\ file_maps[1][1].file_size < InlineLimit
    IN  /\ Cardinality(DOMAIN files) < MaxBundles
        /\ \A i \in 1..Len(req) :
              req[i].read # None => Unwrap(req[i].read) \in
                  {req[i].size - 1, req[i].size, req[i].size + 1}
        /\ IF inlined /\ req[1].read = None
           THEN /\ dbOp' = [op |-> "upload_failed", request |-> req]
                /\ UNCHANGED files
           ELSE LET msg == [files |-> file_maps,
                            valid_to |-> Some(now + timeout),
                            inline_data |-> IF inlined THEN ReadWhole(req[1])
                                            ELSE <<>>,
                            reporter |-> "r1"]
                IN  /\ RegisterHash(msg)
                    /\ dbOp' = [op |-> "upload", request |-> req,
                                msg |-> msg]
        /\ UNCHANGED <<now, connVars, dlVars, codecVars, mbVars, bootVars,
                       hashVars, readVars>>

NextUp ==
    \/ \E req \in UploadRequests : \E order \in IterOrders(Len(req)) :
          \E timeout \in {1, 2} : Upload(req, order, timeout)
    \/ DbTick

SpecUp == InitEmpty /\ [][NextUp]_vars

\* C34 as claimed: every FileDesc of the catalog with inline data has
\* exactly one file, of fewer than 200 bytes, and as many bytes of inline
\* data as file_size says; a bundle of two or more files, or of one file of
\* 200 bytes or more, has no inline data.
C34_InlineHasFileSize ==
    \A h \in DOMAIN files :
        LET desc == files[h].desc
        IN  /\ desc.inline_data # <<>> =>
                  /\ Len(desc.files) = 1
                  /\ desc.files[1][1].file_size < 200
                  /\ Len(desc.inline_data) = desc.files[1][1].file_size
            /\ (\/ Len(desc.files) >= 2
                \/ Len(desc.files) = 1 /\ desc.files[1][1].file_size >= 200) =>
                  desc.inline_data = <<>>

\* C34 as amended: every FileDesc of the catalog with inline data has
\* exactly one file, of fewer than 200 bytes; a bundle of two or more files,
\* or of one file of 200 bytes or more, has no inline data; the inline data
\* of an upload are the bytes the file held when it was read after hashing,
\* which are file_size bytes when the file was not changed in between.
C34_InlineOnlySmallSingle ==
    [][/\ \A h \in DOMAIN files' :
            LET desc == files'[h].desc
            IN  /\ desc.inline_data # <<>> =>
                      /\ Len(desc.files) = 1
                      /\ desc.files[1][1].file_size < 200
                /\ (\/ Len(desc.files) >= 2
                    \/ /\ Len(desc.files) = 1
                       /\ desc.files[1][1].file_size >= 200) =>
                      desc.inline_data = <<>>
       /\ dbOp'.op = "upload" =>
            LET req == dbOp'.request
                msg == dbOp'.msg
            IN  (Len(req) = 1 /\ req[1].size < 200) =>
                    /\ Len(msg.inline_data) = Unwrap(req[1].read)
                    /\ req[1].read = Some(req[1].size) =>
                          Len(msg.inline_data) = msg.files[1][1].file_size]_vars

\* the catalog holds a file of 199 bytes with its 199 bytes inline and a
\* file of 200 bytes without inline data
C34_Witness ==
    \E g, h \in DOMAIN files :
        /\ files[g].desc.files[1][1].file_size = 199
        /\ Len(files[g].desc.files) = 1
        /\ Len(files[g].desc.inline_data) = 199
        /\ files[h].desc.files[1][1].file_size = 200
        /\ Len(files[h].desc.files) = 1
        /\ files[h].desc.inline_data = <<>>

\* the files of the bundle registered under h, whatever their order
FileSet(h) ==
    {files[h].desc.files[i] : i \in 1..Len(files[h].desc.files)}

\* C40: uploads of the same set of files (same contents, same display
\* names) register the same bundle hash, whatever order the files of the
\* request are enumerated in: no two entries of the catalog hold the same
\* files under different hashes.
C40_HashIgnoresOrder ==
    \A g, h \in DOMAIN files :
        (/\ Len(files[g].desc.files) = Len(files[h].desc.files)
         /\ FileSet(g) = FileSet(h)) => g = h

\* the same two files were uploaded twice and the catalog holds them under
\* two hashes, once in each order
UploadedInBothOrders ==
    \E g, h \in DOMAIN files :
        /\ g # h
        /\ Len(files[g].desc.files) = 2
        /\ files[h].desc.files =
              <<files[g].desc.files[2], files[g].desc.files[1]>>

(***************************************************************************)
(* The codec on its own: a peer writes frames, their bytes arrive in       *)
(* pieces, the FramedRead calls decode on what it has buffered.            *)
(***************************************************************************)
\* frames a peer writes
MaxFrames == 2

\* the commands handed to the encoder
Commands ==
    {Nop, Hello(0, 10), Ask(HashA), ask_reply(HashB, None),
     ask_reply(HashA, Some(<<>>)), ask_reply(HashAB, Some(<<FM_a, FM_b>>)),
     GetBlock(HashA, 0, 1), block(HashA, 1, 0, BytesA1),
     block(HashB, 0, 0, <<>>)}

\* the first bytes of frames no encoder of this model writes: payloads
\* declared as 8 MiB and 8 MiB + 1, an unknown opcode
RawHeaders ==
    {<<Op.AskReply>> \o put_le(8388609, 4),
     <<Op.Block>> \o put_le(8388609, 4) \o <<1, 2>>,
     <<Op.Block>> \o put_le(8388608, 4) \o <<1, 2>>,
     <<9>>}

\* the sizes of the pieces the bytes arrive in
Chunks == {1, 5}

\* the stream of decoded frames has not failed
Decoding == result[1] = "Ok"

\* Encoder::encode on the peer's side
Encode(msg) ==
    /\ Decoding
    /\ Len(sent) < MaxFrames
    /\ wire' = encode(msg, wire)
    /\ sent' = Append(sent, [item |-> Some(msg), len |-> Len(wire') - Len(wire)])
    /\ UNCHANGED <<dbVars, connVars, dlVars, mbVars, bootVars, hashVars, readVars, inbuf, recv, result>>

\* a peer writes the beginning of a frame of its own making, declaring the
\* length its bytes 2..5 hold
WriteRaw(h) ==
    /\ Decoding
    /\ Len(sent) < MaxFrames
    /\ wire' = wire \o h
    /\ sent' = Append(sent, [item |-> None,
                             len |-> IF Len(h) < 5 THEN 1
                                     ELSE 5 + read_le(SubSeq(h, 2, 5))])
    /\ UNCHANGED <<dbVars, connVars, dlVars, mbVars, bootVars, hashVars, readVars, inbuf, recv, result>>

\* the FramedRead reads n more bytes from the socket into its buffer
Arrive(n) ==
    /\ Decoding
    /\ n <= Len(wire)
    /\ inbuf' = inbuf \o SubSeq(wire, 1, n)
    /\ wire' = SubSeq(wire, n + 1, Len(wire))
    /\ UNCHANGED <<dbVars, connVars, dlVars, mbVars, bootVars, hashVars, readVars, sent, recv, result>>

\* the FramedRead calls Decoder::decode on its buffer
Decode ==
    /\ Decoding
    /\ result' = decode(inbuf).ret
    /\ inbuf' = decode(inbuf).src
    /\ recv' = IF result'[1] = "Ok" /\ IsSome(result'[2])
               THEN Append(recv, Unwrap(result'[2])) ELSE recv
    /\ UNCHANGED <<dbVars, connVars, dlVars, mbVars, bootVars, hashVars, readVars, wire, sent>>

NextCodec ==
    \/ \E msg \in Commands : Encode(msg)
    \/ \E h \in RawHeaders : WriteRaw(h)
    \/ \E n \in Chunks : Arrive(n)
    \/ Decode

SpecCodec == InitEmpty /\ [][NextCodec]_vars

(***************************************************************************)
(* Properties of the codec.                                                *)
(***************************************************************************)
\* the rank of the frame the buffer begins with
NextFrame == Len(recv) + 1

\* the frame the buffer begins with was written by the encoder
NextEncoded == NextFrame <= Len(sent) /\ IsSome(sent[NextFrame].item)

\* C17: every command decode has returned equals, in every field, the
\* command encoded at its rank; and whenever the bytes encode wrote for a
\* command (NOP, HELLO, ASK, ASK_REPLY with or without files, GET_BLOCK,
\* BLOCK) are all buffered, decode returns that command and takes exactly
\* those bytes off the buffer.
C17_RoundTrip ==
    /\ \A i \in 1..Len(recv) : sent[i].item = Some(recv[i])
    /\ (NextEncoded /\ Len(inbuf) >= sent[NextFrame].len) =>
          decode(inbuf) =
              Decoded(<<"Ok", sent[NextFrame].item>>,
                      SubSeq(inbuf, sent[NextFrame].len + 1, Len(inbuf)))

\* an ASK_REPLY with two FileMaps and a BLOCK were encoded and decoded, and
\* no byte is left
C17_Witness ==
    /\ Len(recv) = 2
    /\ recv[1] = ask_reply(HashAB, Some(<<FM_a, FM_b>>))
    /\ recv[2] = block(HashA, 1, 0, BytesA1)
    /\ inbuf = <<>>
    /\ wire = <<>>

\* the payload length the frame the buffer begins with declares, for a
\* frame with a length field
DeclaredLen == sent[NextFrame].len - 5

\* C18: once the opcode and the four length bytes of an ASK_REPLY, GET_BLOCK
\* or BLOCK frame are buffered, decode fails with "packet too big" if and
\* only if the declared length is greater than 8388608, whatever follows
\* them in the buffer; with fewer bytes buffered it does not fail so.
C18_TooBig ==
    /\ (NextFrame <= Len(sent) /\ Len(inbuf) >= 5
        /\ inbuf[1] \in {Op.AskReply, Op.GetBlock, Op.Block}) =>
          (decode(inbuf).ret = <<"Err", "packet too big">>
              <=> DeclaredLen > 8388608)
    /\ Len(inbuf) < 5 => decode(inbuf).ret # <<"Err", "packet too big">>

\* an ASK_REPLY declaring 8 MiB + 1 was rejected with no payload byte
\* buffered
C18_Witness ==
    /\ result = <<"Err", "packet too big">>
    /\ Len(inbuf) = 5
    /\ inbuf[1] = Op.AskReply
    /\ wire = <<>>

\* C19: while the buffer holds only a proper prefix of a frame of a known
\* opcode and a length of at most 8 MiB, decode returns no frame and no
\* error and leaves the buffer as it is; when an encoded frame is whole in
\* the buffer decode returns it and leaves the bytes after it, on which the
\* next call does the same for the next frame.
C19_PartialFrame ==
    /\ (NextFrame <= Len(sent) /\ Len(inbuf) < sent[NextFrame].len
        /\ sent[NextFrame].len <= 5 + 8388608) =>
          decode(inbuf) = Decoded(<<"Ok", None>>, inbuf)
    /\ (NextEncoded /\ Len(inbuf) >= sent[NextFrame].len) =>
          /\ decode(inbuf).ret = <<"Ok", sent[NextFrame].item>>
          /\ decode(inbuf).src =
                SubSeq(inbuf, sent[NextFrame].len + 1, Len(inbuf))
          /\ (NextFrame < Len(sent)
              /\ Len(inbuf) < sent[NextFrame].len + sent[NextFrame + 1].len
              /\ sent[NextFrame + 1].len <= 5 + 8388608) =>
                decode(decode(inbuf).src) =
                    Decoded(<<"Ok", None>>, decode(inbuf).src)

\* the first frame was returned and taken off; the call after it found a
\* proper prefix of the second frame and returned nothing
C19_Witness ==
    /\ Len(recv) = 1
    /\ result = <<"Ok", None>>
    /\ Len(sent) = 2
    /\ IsSome(sent[2].item)
    /\ inbuf # <<>>
    /\ Len(inbuf) < sent[2].len

=============================================================================
